---- MODULE Spec2Model ----
(***************************************************************************)
(* A model of stocktopus' provider layer: the circuit breaker middleware   *)
(* (CircuitBreakerProvider) and the token-bucket rate limiter              *)
(* (TokenBucketLimiter), each under concurrent callers and a discrete      *)
(* clock.                                                                  *)
(***************************************************************************)
EXTENDS Integers, Sequences, FiniteSets, TLC

(* ------------------------------ bounds -------------------------------- *)

\* Concurrent goroutines calling one breaker, or one limiter.
NCallers == 2
\* The clock runs 0..MaxTime.
MaxTime == 2
\* CircuitBreakerConfig.MaxFailures ranges over 1..MaxMaxFailures.
MaxMaxFailures == 2
\* CircuitBreakerConfig.ResetTimeout ranges over 1..MaxResetTimeout ticks.
MaxResetTimeout == 1

\* The status codes given to NewProviderError range over -1..MaxStatusCode.
MaxStatusCode == 600

\* GetQuotes is given up to MaxSymbols symbols.
MaxSymbols == 2
\* A vendor answers with up to MaxEntries quote entries.
MaxEntries == 2

\* A vendor's payload carries a price of -1..MaxPrice and a volume of
\* -1..MaxVolume.
MaxPrice == 1
MaxVolume == 1

\* The retry middleware is configured with up to MaxAttempts attempts, an
\* initial backoff of up to MaxInitialBackoff, a cap of up to MaxBackoff
\* and a multiplier of up to MaxMultiplier.
MaxAttempts == 3
MaxInitialBackoff == 2
MaxBackoff == 4
MaxMultiplier == 2

\* ParseTimestamp is applied to numbers up to MaxTimestamp.
MaxTimestamp == 70

\* Name() is called on compositions of up to MaxLayers middlewares.
MaxLayers == 3

\* A ProviderBuilder takes up to MaxWith calls of its With... methods.
MaxWith == 4

\* The limiter's maxRequests ranges over 1..MaxRequests.
MaxRequests == 2
\* The limiter's window ranges over maxRequests..MaxWindow ticks.
MaxWindow == 3

Callers == 1..NCallers

(* ------------------------------ errors -------------------------------- *)

\* A classification that knows the listed codes only.
isRetryableStatusCode_ListedOnly(statusCode) ==
  statusCode \in {429, 500, 502, 503, 504, 0}

\* isRetryableStatusCode: which HTTP status codes warrant a retry.
isRetryableStatusCode(statusCode) ==
  CASE statusCode = 429 -> TRUE
    [] statusCode \in {500, 502, 503, 504} -> TRUE
    [] statusCode = 0 -> TRUE
    [] statusCode \in {401, 403} -> FALSE
    [] statusCode = 404 -> FALSE
    [] statusCode = 400 -> FALSE
    [] OTHER -> statusCode >= 500

\* An error value: nil, the sentinel ErrCircuitOpen, or a *ProviderError.
NilErr == [kind |-> "nil", status |-> 0, retryable |-> FALSE]
ErrCircuitOpen == [kind |-> "ErrCircuitOpen", status |-> 0, retryable |-> FALSE]
CtxCanceled == [kind |-> "context.Canceled", status |-> 0, retryable |-> FALSE]

NewProviderError(statusCode) ==
  [kind |-> "ProviderError", status |-> statusCode,
   retryable |-> isRetryableStatusCode(statusCode)]

(* ------------------------- circuit breaker ---------------------------- *)

StateClosed == "CLOSED"
StateOpen == "OPEN"
StateHalfOpen == "HALF_OPEN"
CircuitStates == {StateClosed, StateOpen, StateHalfOpen}

Ops == {"GetQuote", "GetQuotes", "HealthCheck"}

\* No quote (a nil *model.Quote, a nil slice, or HealthCheck's lack of one).
NoQuote == "nil"

\* What the wrapped provider may return to the breaker: a result and an error.
\* 503 stands for the transient failures, 401 for the permanent ones.
InnerResults(op) ==
  { [quote |-> IF op = "HealthCheck" THEN NoQuote ELSE "quote", err |-> NilErr],
    [quote |-> NoQuote, err |-> NewProviderError(503)],
    [quote |-> NoQuote, err |-> NewProviderError(401)] }

AllInnerResults == UNION {InnerResults(op) : op \in Ops}

VARIABLES
  now,              \* the wall clock, in ticks
  config,           \* cb.config: [MaxFailures, ResetTimeout]
  state,            \* cb.state
  failures,         \* cb.failures
  lastFailureTime,  \* cb.lastFailureTime
  calls,            \* per caller: where its call through the breaker stands
  lastReturn,       \* history: what the most recent call to return returned
  consec,           \* history: failed completions since the last success or Reset
  lastFailAt,       \* history: the instant of the last failed completion
  probe,            \* history: the call that moved the breaker OPEN -> HALF_OPEN
  afterReset        \* history: Reset() and the first call to arrive after it

cbVars ==
  <<config, state, failures, lastFailureTime, calls, lastReturn, consec, lastFailAt,
    probe, afterReset>>

\* The zero time.Time of a breaker that never failed: further back than any timeout.
ZeroTime == 0 - (MaxResetTimeout + MaxTime + 1)

NoResult == [quote |-> NoQuote, err |-> NilErr]

\* A caller between two calls. While its call is in flight (pc = "inner") op
\* is the handler called and innerCalls counts the invocations of cb.provider
\* by this call.
IdleCall == [pc |-> "idle", op |-> "none", innerCalls |-> 0]

\* Before any call has returned. Of the call that returned, innerCalls is the
\* number of times it invoked cb.provider, innerRet what cb.provider returned,
\* ret what the handler returned, and cleared tells that its afterRequest
\* found the breaker CLOSED with failures counted and recorded a success.
NoReturn ==
  [returned |-> FALSE, innerCalls |-> 0, innerRet |-> NoResult,
   ret |-> NoResult, cleared |-> FALSE]

NoProbe == [caller |-> 0, phase |-> "none"]
NoReset == [phase |-> "none", from |-> "none"]

\* NewCircuitBreakerProvider: the breaker starts CLOSED with no failures, for
\* every configuration within the bounds.
NewCircuitBreakerProvider ==
  /\ config \in [MaxFailures : 1..MaxMaxFailures, ResetTimeout : 1..MaxResetTimeout]
  /\ state = StateClosed
  /\ failures = 0
  /\ lastFailureTime = ZeroTime
  /\ calls = [c \in Callers |-> IdleCall]
  /\ lastReturn = NoReturn
  /\ consec = 0
  /\ lastFailAt = ZeroTime
  /\ probe = NoProbe
  /\ afterReset = NoReset

\* time.Since(cb.lastFailureTime) > cb.config.ResetTimeout
ResetTimeoutElapsed(t, last, cfg) == t - last > cfg.ResetTimeout

\* A beforeRequest whose refusal moves the breaker to HALF_OPEN.
beforeRequest_RefusalHalfOpens(st, last, t, cfg) ==
  CASE st = StateClosed -> [err |-> NilErr, state |-> st]
    [] st = StateOpen ->
         IF ResetTimeoutElapsed(t, last, cfg)
         THEN [err |-> NilErr, state |-> StateHalfOpen]
         ELSE [err |-> ErrCircuitOpen, state |-> StateHalfOpen]
    [] st = StateHalfOpen -> [err |-> NilErr, state |-> st]
    [] OTHER -> [err |-> ErrCircuitOpen, state |-> st]

\* beforeRequest: the error it returns and the state it leaves.
beforeRequest(st, last, t, cfg) ==
  CASE st = StateClosed -> [err |-> NilErr, state |-> st]
    [] st = StateOpen ->
         IF ResetTimeoutElapsed(t, last, cfg)
         THEN [err |-> NilErr, state |-> StateHalfOpen]
         ELSE [err |-> ErrCircuitOpen, state |-> st]
    [] st = StateHalfOpen -> [err |-> NilErr, state |-> st]
    [] OTHER -> [err |-> ErrCircuitOpen, state |-> st]

\* onSuccess with the CLOSED case forgetting to clear the counter.
onSuccess_KeepsCount(st, f) ==
  CASE st = StateClosed -> [state |-> st, failures |-> f]
    [] st = StateHalfOpen -> [state |-> StateClosed, failures |-> 0]
    [] st = StateOpen -> [state |-> StateClosed, failures |-> 0]
    [] OTHER -> [state |-> st, failures |-> f]

\* onSuccess: the state and failure count it leaves.
onSuccess(st, f) ==
  CASE st = StateClosed -> [state |-> st, failures |-> 0]
    [] st = StateHalfOpen -> [state |-> StateClosed, failures |-> 0]
    [] st = StateOpen -> [state |-> StateClosed, failures |-> 0]
    [] OTHER -> [state |-> st, failures |-> f]

\* onFailure with the threshold test off by one (> for >=).
onFailure_OffByOne(st, f, t, cfg) ==
  [failures |-> f + 1,
   lastFailureTime |-> t,
   state |-> CASE st = StateClosed ->
                    IF f + 1 > cfg.MaxFailures THEN StateOpen ELSE st
               [] st = StateHalfOpen -> StateOpen
               [] OTHER -> st]

\* onFailure with the HALF_OPEN case missing: a failed probe leaves HALF_OPEN.
onFailure_KeepsHalfOpen(st, f, t, cfg) ==
  [failures |-> f + 1,
   lastFailureTime |-> t,
   state |-> CASE st = StateClosed ->
                    IF f + 1 >= cfg.MaxFailures THEN StateOpen ELSE st
               [] OTHER -> st]

\* onFailure: the state, failure count and last-failure instant it leaves.
onFailure(st, f, t, cfg) ==
  [failures |-> f + 1,
   lastFailureTime |-> t,
   state |-> CASE st = StateClosed ->
                    IF f + 1 >= cfg.MaxFailures THEN StateOpen ELSE st
               [] st = StateHalfOpen -> StateOpen
               [] OTHER -> st]

\* afterRequest: every non-nil error is a failure, whatever its kind.
afterRequestFails(err) == err # NilErr

\* What the handler returns when beforeRequest refuses the call.
rejectedReturn(err) == [quote |-> NoQuote, err |-> err]

\* A handler that replaces the wrapped provider's error by one of its own.
handlerReturn_Wraps(r) ==
  IF r.err = NilErr THEN r ELSE [quote |-> r.quote, err |-> NewProviderError(0)]

\* What the handler returns once cb.provider has returned r.
handlerReturn(r) == r

\* GetQuote / GetQuotes / HealthCheck up to the call of the wrapped provider:
\* beforeRequest under cb.mu, then either the early return of ErrCircuitOpen
\* or the invocation of cb.provider.
Enter(c, op) ==
  /\ calls[c].pc = "idle"
  /\ LET b == beforeRequest(state, lastFailureTime, now, config) IN
       /\ state' = b.state
       /\ IF b.err # NilErr
          THEN /\ calls' = calls
               /\ lastReturn' = [NoReturn EXCEPT !.returned = TRUE,
                                           !.ret = rejectedReturn(b.err)]
               /\ probe' = probe
          ELSE /\ calls' = [calls EXCEPT ![c] =
                    [pc |-> "inner", op |-> op, innerCalls |-> 1]]
               /\ lastReturn' = lastReturn
               /\ probe' = IF state = StateOpen /\ b.state = StateHalfOpen
                           THEN [caller |-> c, phase |-> "in flight"]
                           ELSE IF probe.phase = "in flight" THEN probe ELSE NoProbe
  /\ afterReset' = IF afterReset.phase = "reset"
                   THEN [afterReset EXCEPT !.phase = "next"]
                   ELSE NoReset
  /\ UNCHANGED <<now, config, failures, lastFailureTime, consec, lastFailAt>>

\* The wrapped provider returns r; afterRequest(err) under cb.mu; the handler
\* returns what the wrapped provider returned.
Exit(c, r) ==
  /\ calls[c].pc = "inner"
  /\ r \in InnerResults(calls[c].op)
  /\ IF afterRequestFails(r.err)
     THEN LET a == onFailure(state, failures, now, config) IN
            /\ state' = a.state
            /\ failures' = a.failures
            /\ lastFailureTime' = a.lastFailureTime
            /\ consec' = consec + 1
            /\ lastFailAt' = now
     ELSE LET a == onSuccess(state, failures) IN
            /\ state' = a.state
            /\ failures' = a.failures
            /\ lastFailureTime' = lastFailureTime
            /\ consec' = 0
            /\ lastFailAt' = lastFailAt
  /\ calls' = [calls EXCEPT ![c] = IdleCall]
  /\ lastReturn' = [returned |-> TRUE, innerCalls |-> calls[c].innerCalls,
              innerRet |-> r, ret |-> handlerReturn(r),
              cleared |-> (/\ ~afterRequestFails(r.err)
                           /\ state = StateClosed
                           /\ failures > 0)]
  /\ probe' = IF probe = [caller |-> c, phase |-> "in flight"]
              THEN [caller |-> 0,
                    phase |-> IF state # StateHalfOpen THEN "disturbed"
                              ELSE IF r.err = NilErr THEN "succeeded" ELSE "failed"]
              ELSE IF probe.phase = "in flight" THEN probe ELSE NoProbe
  /\ afterReset' = NoReset
  /\ UNCHANGED <<now, config>>

\* Reset that closes the circuit and leaves the counter.
resetBreaker_KeepsCount(st, f) == [state |-> StateClosed, failures |-> f]

\* Reset: back to CLOSED with a cleared counter.
resetBreaker(st, f) == [state |-> StateClosed, failures |-> 0]

Reset ==
  /\ LET a == resetBreaker(state, failures) IN
       /\ state' = a.state
       /\ failures' = a.failures
  /\ consec' = 0
  /\ afterReset' = [phase |-> "reset", from |-> state]
  /\ probe' = IF probe.phase = "in flight" THEN probe ELSE NoProbe
  /\ UNCHANGED <<now, config, lastFailureTime, calls, lastReturn, lastFailAt>>

(* --------------------------- rate limiter ----------------------------- *)

VARIABLES
  tb,            \* the limiter's fixed fields: maxRequests, window, capacity, refillPer
  tokens,        \* tb.tokens, counted in 1/refillPer of a token (so 1.0 is refillPer)
  lastCheck,     \* tb.lastCheck
  mu,            \* tb.mu: the caller holding it, 0 when free
  waits,         \* per caller: where its Wait or Allow call stands
  granted,       \* history: the admissions granted since construction
  failedAtZero,  \* history: a caller found no token before any time had passed
  waitLog,       \* history: how many Wait() calls were admitted, and the clock
                 \* readings of the first and the latest of them (see NoLog)
  allowLog       \* history: per instant, how many of the Allow() calls that read
                 \* the clock (time.Now(), under the lock) then returned true
                 \* (kept by the runs that start with a log, see NoLog)

tbVars ==
  <<tb, tokens, lastCheck, mu, waits, granted, failedAtZero, waitLog, allowLog>>

LimiterOps == {"Wait", "Allow"}

\* The log of a run that keeps none, and the empty log of one that does.
NoLog == <<>>
EmptyLog == [t \in 0..MaxTime |-> 0]
NoAdmissions == [n |-> 0, first |-> 0, last |-> 0]

\* A caller before its first call. cancelled is the state of the context given
\* to Wait, wakeAt the instant at which time.After(waitTime) fires, consumed
\* the tokens this call took from the bucket, ret what the call returned.
IdleWait ==
  [pc |-> "idle", op |-> "none", cancelled |-> FALSE, wakeAt |-> 0,
   consumed |-> 0, ret |-> "none"]

\* NewTokenBucketLimiter(maxRequests, window): refillPer is the integer
\* quotient window / maxRequests, and the bucket starts full.
NewTokenBucketLimiter(maxRequests, window) ==
  [maxRequests |-> maxRequests,
   window |-> window,
   refillPer |-> window \div maxRequests,
   capacity |-> maxRequests * (window \div maxRequests)]

\* min of two numbers (ratelimit.go's own helper).
min(a, b) == IF a < b THEN a ELSE b

\* The refill without the cap at capacity.
refill_NoCap(tok, last, t, lim) ==
  [tokens |-> tok + (t - last), lastCheck |-> t]

\* The refill both Wait and Allow start with: tokens accrue with the time
\* elapsed since lastCheck, capped at capacity. In the model's unit,
\* tokensToAdd = elapsed / refillPer is just elapsed.
refill(tok, last, t, lim) ==
  [tokens |-> min(lim.capacity, tok + (t - last)), lastCheck |-> t]

\* A test that is content with a fraction of a token.
hasToken_Fraction(tok, lim) == tok > 0

\* tb.tokens >= 1.0
hasToken(tok, lim) == tok >= lim.refillPer

\* An admission that takes two tokens.
takeToken_Two(tok, lim) == tok - 2 * lim.refillPer

\* tb.tokens--
takeToken(tok, lim) == tok - lim.refillPer

\* A path without a token that reserves the token it is going to wait for.
leaveTokens_Reserves(tok, lim) == tok - lim.refillPer

\* The path without a token writes nothing to tb.tokens.
leaveTokens(tok, lim) == tok

\* waitTime = deficit * refillPer, with deficit = 1.0 - tb.tokens.
waitTime(tok, lim) == lim.refillPer - tok

\* A Lock() that does not exclude anybody.
mutexFree_NoLock(m) == TRUE

\* tb.mu.Lock() returns only when nobody holds the mutex.
mutexFree(m) == m = 0

\* The start of a call, or of one more turn of Wait's loop: the lock is taken
\* and the bucket refilled.
LockAndRefill(c) ==
  /\ mutexFree(mu)
  /\ mu' = c
  /\ LET r == refill(tokens, lastCheck, now, tb) IN
       /\ tokens' = r.tokens
       /\ lastCheck' = r.lastCheck

\* Wait(ctx) or Allow() is called: tb.mu.Lock() and the refill.
Call(c, op, ctxCancelled) ==
  /\ waits[c].pc \in {"idle", "done"}
  /\ op = "Allow" => ~ctxCancelled
  /\ LockAndRefill(c)
  /\ waits' = [waits EXCEPT ![c] =
       [IdleWait EXCEPT !.pc = "check", !.op = op, !.cancelled = ctxCancelled]]
  /\ UNCHANGED <<tb, granted, failedAtZero, waitLog, allowLog>>

\* A Wait that keeps the lock while it sleeps.
unlockToSleep_Keeps(m) == m

\* tb.mu.Unlock() before the select: nobody holds the mutex.
unlockToSleep(m) == 0

\* The test for a token, under the lock. Without a token Allow unlocks and
\* returns false; Wait computes waitTime, unlocks and sleeps in the select.
Check(c) ==
  /\ waits[c].pc = "check"
  /\ IF hasToken(tokens, tb)
     THEN /\ waits' = [waits EXCEPT ![c].pc = "take"]
          /\ UNCHANGED <<tokens, mu, failedAtZero>>
     ELSE /\ tokens' = leaveTokens(tokens, tb)
          /\ mu' = IF waits[c].op = "Allow" THEN 0 ELSE unlockToSleep(mu)
          /\ failedAtZero' = (failedAtZero \/ now = 0)
          /\ waits' = [waits EXCEPT ![c] =
               IF waits[c].op = "Allow"
               THEN [@ EXCEPT !.pc = "done", !.op = "none", !.ret = "false",
                              !.consumed = @ + (tokens - tokens') \div tb.refillPer]
               ELSE [@ EXCEPT !.pc = "sleep",
                              !.wakeAt = now + waitTime(tokens, tb),
                              !.consumed = @ + (tokens - tokens') \div tb.refillPer]]
  /\ UNCHANGED <<tb, lastCheck, granted, waitLog, allowLog>>

\* A token was there: it is taken, the lock released, and the call returns
\* nil (Wait) or true (Allow). The admission is dated by the clock reading of
\* its refill, which is tb.lastCheck as long as the lock is held.
Take(c) ==
  /\ waits[c].pc = "take"
  /\ tokens' = takeToken(tokens, tb)
  /\ mu' = 0
  /\ waits' = [waits EXCEPT ![c].pc = "done", ![c].op = "none",
                            ![c].ret = IF waits[c].op = "Allow" THEN "true" ELSE "nil",
                            ![c].consumed = @ + (tokens - tokens') \div tb.refillPer]
  /\ granted' = granted + 1
  /\ allowLog' = IF waits[c].op = "Allow" /\ allowLog # NoLog
                 THEN [allowLog EXCEPT ![lastCheck] = @ + 1]
                 ELSE allowLog
  /\ waitLog' = IF waits[c].op = "Wait" /\ waitLog # NoLog
                THEN [n |-> waitLog.n + 1,
                      first |-> IF waitLog.n = 0 THEN lastCheck ELSE waitLog.first,
                      last |-> lastCheck]
                ELSE waitLog
  /\ UNCHANGED <<tb, lastCheck, failedAtZero>>

\* The caller of Wait cancels its context.
CancelCtx(c) ==
  /\ waits[c].pc \in {"check", "take", "sleep"}
  /\ waits[c].op = "Wait"
  /\ ~waits[c].cancelled
  /\ waits' = [waits EXCEPT ![c].cancelled = TRUE]
  /\ UNCHANGED <<tb, tokens, lastCheck, mu, granted, failedAtZero, waitLog,
                 allowLog>>

\* select, case <-ctx.Done(): Wait returns ctx.Err().
CtxDone(c) ==
  /\ waits[c].pc = "sleep"
  /\ waits[c].cancelled
  /\ waits' = [waits EXCEPT ![c].pc = "done", ![c].op = "none", ![c].wakeAt = 0,
                            ![c].ret = "context.Canceled"]
  /\ UNCHANGED <<tb, tokens, lastCheck, mu, granted, failedAtZero, waitLog,
                 allowLog>>

\* select, case <-time.After(waitTime): the loop starts over.
Wake(c) ==
  /\ waits[c].pc = "sleep"
  /\ now >= waits[c].wakeAt
  /\ LockAndRefill(c)
  /\ waits' = [waits EXCEPT ![c].pc = "check", ![c].wakeAt = 0]
  /\ UNCHANGED <<tb, granted, failedAtZero, waitLog, allowLog>>

\* A wrapper that calls r.provider whatever Wait returned.
RateLimitedCall_CallsAnyway(waitErr) == [innerCalls |-> 1, err |-> "of r.provider"]

\* RateLimitedProvider.GetQuote / GetQuotes / HealthCheck, given what
\* r.limiter.Wait(ctx) returned: its error is returned as it is and r.provider
\* left alone, otherwise r.provider is called once and decides the result.
RateLimitedCall(waitErr) ==
  IF waitErr # "nil"
  THEN [innerCalls |-> 0, err |-> waitErr]
  ELSE [innerCalls |-> 1, err |-> "of r.provider"]

\* A limiter for every maxRequests and window within the bounds (window at
\* least maxRequests ticks, so that refillPer is not 0), just constructed.
LimiterInit(wlog, alog) ==
  /\ \E m \in 1..MaxRequests, w \in 1..MaxWindow :
       /\ w >= m
       /\ tb = NewTokenBucketLimiter(m, w)
  /\ tokens = tb.capacity
  /\ lastCheck = now
  /\ mu = 0
  /\ waits = [c \in Callers |-> IdleWait]
  /\ granted = 0
  /\ failedAtZero = FALSE
  /\ waitLog = wlog
  /\ allowLog = alog

(* ------------------------- provider builder --------------------------- *)

VARIABLES
  provider,      \* b.provider: the layers of the provider built so far, the
                 \* outermost first and the base adapter last
  built          \* what Build() returned, NotBuilt before

bVars == <<provider, built>>

NotBuilt == <<>>

\* The middleware a With... method wraps around b.provider, and the base.
RateLimitLayer == "ratelimit"
RetryLayer == "retry"
CircuitBreakerLayer == "circuitbreaker"
ObservabilityLayer == "observability"
BaseAdapter == "adapter"

\* NewProviderBuilder(baseProvider)
NewProviderBuilder ==
  /\ provider = <<BaseAdapter>>
  /\ built = NotBuilt

\* New...Provider(b.provider, ...): the new layer holds b.provider as its
\* inner provider, and so becomes the outermost.
wrap(layer, p) == <<layer>> \o p

WithRateLimit ==
  /\ Len(provider) <= MaxWith
  /\ provider' = wrap(RateLimitLayer, provider)
  /\ UNCHANGED built

WithRetry ==
  /\ Len(provider) <= MaxWith
  /\ provider' = wrap(RetryLayer, provider)
  /\ UNCHANGED built

WithCircuitBreaker ==
  /\ Len(provider) <= MaxWith
  /\ provider' = wrap(CircuitBreakerLayer, provider)
  /\ UNCHANGED built

WithObservability ==
  /\ Len(provider) <= MaxWith
  /\ provider' = wrap(ObservabilityLayer, provider)
  /\ UNCHANGED built

\* Build() returns b.provider.
Build ==
  /\ built' = provider
  /\ UNCHANGED provider

(* ------------------------- error construction ------------------------ *)

VARIABLES
  statusCode,    \* the status code a ProviderError is to be made for
  made           \* the ProviderError made for it, NilErr before

ecVars == <<statusCode, made>>

StatusCodes == (0 - 1)..MaxStatusCode

\* No error made, for a status code of the range.
ErrorInit ==
  /\ statusCode \in StatusCodes
  /\ made = NilErr

\* NewProviderError(provider, operation, statusCode, err)
MakeError ==
  /\ made = NilErr
  /\ made' = NewProviderError(statusCode)
  /\ UNCHANGED statusCode

ErrorsUnused ==
  /\ statusCode = 0
  /\ made = NilErr

(* ------------------------------ adapters ------------------------------ *)

VARIABLES
  req,           \* the call: which provider, which method, the context, the symbols
  vendor,        \* what the vendor answers: a status and the quote entries
  out,           \* what the call returned, NoOutput before
  getQuoteCalls  \* the GetQuote invocations the call made, itself included

adVars == <<req, vendor, out, getQuoteCalls>>

AlphaVantage == "alphavantage"
Polygon == "polygon"
FMP == "fmp"
Mock == "mock"
Adapters == {AlphaVantage, Polygon, FMP}

\* The context handed to the call: never cancelled, cancelled before the
\* call, or cancelled by the caller while the (first) HTTP request is under way.
CtxLive == "live"
CtxCancelledBefore == "cancelled before the call"
CtxCancelledDuring == "cancelled during the HTTP call"
Contexts == {CtxLive, CtxCancelledBefore, CtxCancelledDuring}

\* A string is a sequence of characters; these are the symbols callers ask
\* for and vendors answer with.
Symbols == { <<"A">>, <<"a">>, <<"B">>, <<"A", " ">> }

\* The symbol HealthCheck asks for ("AAPL" in the code).
HealthSymbol == <<"A">>

\* strings.ToUpper
ToUpperChar(ch) ==
  CASE ch = "a" -> "A"
    [] ch = "b" -> "B"
    [] OTHER -> ch

ToUpper(str) == [i \in 1..Len(str) |-> ToUpperChar(str[i])]

RECURSIVE TrimLeft(_)
TrimLeft(str) ==
  IF str # <<>> /\ Head(str) = " " THEN TrimLeft(Tail(str)) ELSE str

RECURSIVE TrimRight(_)
TrimRight(str) ==
  IF str # <<>> /\ str[Len(str)] = " "
  THEN TrimRight(SubSeq(str, 1, Len(str) - 1))
  ELSE str

\* strings.TrimSpace
TrimSpace(str) == TrimRight(TrimLeft(str))

\* The statuses a vendor answers with. Alpha Vantage answers 200 whatever
\* happened and tells in the body: a status other than 200 stands for its
\* "Note" (429), its "Error Message" / "Information" (401, 403) and a body
\* that is no JSON (500).
Statuses == {200, 401, 403, 429, 500}

\* An entry of a vendor's answer: the symbol it carries, and whether its
\* numbers pass the adapter's validation (price, volume, timestamp).
Entries == [symbol : Symbols, valid : BOOLEAN]

\* The sequences over S of length at most n.
SeqUpTo(S, n) == UNION {[1..k -> S] : k \in 0..n}

\* A *model.Quote: nil, or a quote with its symbol (its numbers are what
\* "valid" of the entry stands for).
NilQuote == [nil |-> TRUE, symbol |-> <<>>]
Quote(symbol) == [nil |-> FALSE, symbol |-> symbol]

\* fmt.Errorf(text), errors.New(text): an error that wraps nothing.
errorsNew(text) == [kind |-> text, status |-> 0, retryable |-> FALSE]

\* NewProviderError(provider, operation, statusCode, err): the error made for
\* the status code, with err as the cause Unwrap() returns.
NewProviderErrorOf(code, err) == NewProviderError(code) @@ [cause |-> err]

\* errors.Is(err, target): err itself or a cause in its chain.
errorsIs(err, target) ==
  \/ err = target
  \/ "cause" \in DOMAIN err /\ err.cause = target

\* What a method returns: the quotes (one for GetQuote, none for
\* HealthCheck), the error, and the HTTP requests it put on the wire.
Returned(quotes, err, requests) ==
  [quotes |-> quotes, err |-> err, requests |-> requests]

NoOutput == Returned(<<>>, NilErr, 0 - 1)

\* http.NewRequestWithContext and p.client.Do(req): a context cancelled
\* already fails the call before anything is sent, one cancelled under way
\* fails it after; both with an error that wraps context.Canceled.
clientDo(ctx) ==
  CASE ctx = CtxCancelledBefore -> [err |-> CtxCanceled, requests |-> 0]
    [] ctx = CtxCancelledDuring -> [err |-> CtxCanceled, requests |-> 1]
    [] OTHER -> [err |-> NilErr, requests |-> 1]

\* normalizeQuote: the symbol is the one the vendor's entry carries, trimmed
\* and uppercased.
normalizeQuote(entry) ==
  [ok |-> entry.valid,
   quote |-> Quote(ToUpper(TrimSpace(entry.symbol)))]

\* alphavantage.Provider.GetQuote
avGetQuote(ctx, symbol, resp) ==
  LET d == clientDo(ctx) IN
  IF d.err # NilErr
  THEN Returned(<<>>, NewProviderErrorOf(0, d.err), d.requests)
  ELSE IF resp.status = 429
  THEN Returned(<<>>, NewProviderErrorOf(429, errorsNew("Note")), 1)
  ELSE IF resp.status \in {401, 403}
  THEN Returned(<<>>, NewProviderErrorOf(400, errorsNew("Error Message")), 1)
  ELSE IF resp.status # 200
  THEN Returned(<<>>, NewProviderErrorOf(resp.status, errorsNew("json")), 1)
  ELSE IF resp.entries = <<>>
  THEN Returned(<<>>, NewProviderErrorOf(resp.status, errorsNew("missing Global Quote")), 1)
  ELSE LET n == normalizeQuote(resp.entries[1]) IN
       IF n.ok
       THEN Returned(<<n.quote>>, NilErr, 1)
       ELSE Returned(<<>>, NewProviderErrorOf(resp.status, errorsNew("invalid")), 1)

\* polygon.Provider.GetQuote
polygonGetQuote(ctx, symbol, resp) ==
  LET d == clientDo(ctx) IN
  IF d.err # NilErr
  THEN Returned(<<>>, NewProviderErrorOf(0, d.err), d.requests)
  ELSE IF resp.status # 200
  THEN Returned(<<>>, NewProviderErrorOf(resp.status, errorsNew("HTTP")), 1)
  ELSE IF resp.entries = <<>>
  THEN Returned(<<>>, NewProviderErrorOf(404, errorsNew("NOT_FOUND")), 1)
  ELSE LET n == normalizeQuote(resp.entries[1]) IN
       IF n.ok
       THEN Returned(<<n.quote>>, NilErr, 1)
       ELSE Returned(<<>>, NewProviderErrorOf(resp.status, errorsNew("invalid")), 1)

\* financialmodelingprep.Provider.GetQuote
fmpGetQuote(ctx, symbol, resp) ==
  LET d == clientDo(ctx) IN
  IF d.err # NilErr
  THEN Returned(<<>>, NewProviderErrorOf(0, d.err), d.requests)
  ELSE IF resp.status = 401
  THEN Returned(<<>>, NewProviderErrorOf(401, errorsNew("authentication failed")), 1)
  ELSE IF resp.status = 429
  THEN Returned(<<>>, NewProviderErrorOf(429, errorsNew("rate limit exceeded")), 1)
  ELSE IF resp.status # 200
  THEN Returned(<<>>, NewProviderErrorOf(resp.status, errorsNew("HTTP")), 1)
  ELSE IF resp.entries = <<>>
  THEN Returned(<<>>, NewProviderErrorOf(404, errorsNew("not found")), 1)
  ELSE LET n == normalizeQuote(resp.entries[1]) IN
       IF n.ok
       THEN Returned(<<n.quote>>, NilErr, 1)
       ELSE Returned(<<>>, NewProviderErrorOf(resp.status, errorsNew("invalid")), 1)

\* GetQuote of the adapter named.
getQuote(adapter, ctx, symbol, resp) ==
  CASE adapter = AlphaVantage -> avGetQuote(ctx, symbol, resp)
    [] adapter = Polygon -> polygonGetQuote(ctx, symbol, resp)
    [] OTHER -> fmpGetQuote(ctx, symbol, resp)

\* The answer to the i-th request of a fan-out: the i-th entry, if there is one.
respFor(v, i) ==
  [status |-> v.status,
   entries |-> IF i <= Len(v.entries) THEN <<v.entries[i]>> ELSE <<>>]

\* The context as the i-th request of a fan-out finds it.
ctxAt(ctx, i) ==
  IF ctx = CtxCancelledDuring /\ i > 1 THEN CtxCancelledBefore ELSE ctx

RECURSIVE SumRequests(_, _)
SumRequests(rs, n) == IF n = 0 THEN 0 ELSE rs[n].requests + SumRequests(rs, n - 1)

\* GetQuotes of Alpha Vantage and Polygon: one GetQuote per symbol, in order;
\* a symbol whose GetQuote fails gets nil, and the error returned is nil.
fanOut(adapter, ctx, symbols, v) ==
  LET rs == [i \in 1..Len(symbols) |-> getQuote(adapter, ctxAt(ctx, i), symbols[i], respFor(v, i))]
  IN Returned([i \in 1..Len(symbols) |->
                 IF rs[i].err # NilErr THEN NilQuote ELSE rs[i].quotes[1]],
              NilErr, SumRequests(rs, Len(symbols)))

\* responseMap's key for an entry: its symbol as the vendor sent it.
responseMapKey(entrySymbol) == entrySymbol

\* A GetQuotes that sends the batch request for an empty list as well.
fmpGetQuotes_NoEmptyCheck(ctx, symbols, v) ==
  LET d == clientDo(ctx) IN
  IF d.err # NilErr
  THEN Returned(<<>>, NewProviderErrorOf(0, d.err), d.requests)
  ELSE IF v.status # 200
  THEN Returned(<<>>, NewProviderErrorOf(v.status, errorsNew("HTTP")), 1)
  ELSE Returned([i \in 1..Len(symbols) |-> NilQuote], NilErr, 1)

\* financialmodelingprep.Provider.GetQuotes: one batch request, the answer
\* mapped back to the input order.
fmpGetQuotes(ctx, symbols, v) ==
  IF symbols = <<>>
  THEN Returned(<<>>, NilErr, 0)
  ELSE
    LET d == clientDo(ctx) IN
    IF d.err # NilErr
    THEN Returned(<<>>, NewProviderErrorOf(0, d.err), d.requests)
    ELSE IF v.status # 200
    THEN Returned(<<>>, NewProviderErrorOf(v.status, errorsNew("HTTP")), 1)
    ELSE
      LET hits(i) == {j \in 1..Len(v.entries) :
                        responseMapKey(v.entries[j].symbol) = ToUpper(symbols[i])}
          last(i) == CHOOSE j \in hits(i) : \A k \in hits(i) : k <= j
      IN Returned([i \in 1..Len(symbols) |->
                     IF hits(i) = {}
                     THEN NilQuote
                     ELSE LET n == normalizeQuote(v.entries[last(i)]) IN
                          IF n.ok THEN n.quote ELSE NilQuote],
                  NilErr, 1)

\* MockProvider.GetQuote: the configured error, or a quote that carries the
\* symbol asked for as it was given. The mock is configured with an error
\* exactly when the vendor's status is not 200.
mockGetQuote(symbol, v) ==
  IF v.status # 200
  THEN Returned(<<>>, NewProviderErrorOf(v.status, errorsNew("QuoteError")), 0)
  ELSE Returned(<<Quote(symbol)>>, NilErr, 0)

\* MockProvider.GetQuotes
mockGetQuotes(symbols, v) ==
  IF v.status # 200
  THEN Returned(<<>>, NewProviderErrorOf(v.status, errorsNew("QuoteError")), 0)
  ELSE Returned([i \in 1..Len(symbols) |-> Quote(symbols[i])], NilErr, 0)

\* HealthCheck of the three adapters: GetQuote for a well-known symbol, its
\* error returned.
healthCheck(adapter, ctx, v) ==
  LET r == getQuote(adapter, ctx, HealthSymbol, v) IN Returned(<<>>, r.err, r.requests)

\* A call and the vendor's answer to it. GetQuote takes one symbol and
\* HealthCheck none; a vendor that fails sends no entries, and a call whose
\* context is cancelled gets no answer.
AdapterInit ==
  /\ req \in [provider : Adapters \cup {Mock},
              op : Ops,
              ctx : Contexts,
              symbols : SeqUpTo(Symbols, MaxSymbols)]
  /\ req.op = "GetQuote" => Len(req.symbols) = 1
  /\ req.op = "HealthCheck" => req.symbols = <<>>
  /\ vendor \in [status : Statuses, entries : SeqUpTo(Entries, MaxEntries)]
  /\ vendor.status # 200 => vendor.entries = <<>>
  /\ req.ctx # CtxLive => vendor = [status |-> 200, entries |-> <<>>]
  /\ req.provider = Mock => vendor.entries = <<>> /\ req.ctx = CtxLive
  /\ out = NoOutput
  /\ getQuoteCalls = 0

AlphaVantageCall ==
  /\ req.provider = AlphaVantage
  /\ out = NoOutput
  /\ out' = CASE req.op = "GetQuote" -> avGetQuote(req.ctx, req.symbols[1], vendor)
              [] req.op = "GetQuotes" -> fanOut(AlphaVantage, req.ctx, req.symbols, vendor)
              [] OTHER -> healthCheck(AlphaVantage, req.ctx, vendor)
  /\ getQuoteCalls' = IF req.op = "GetQuotes" THEN Len(req.symbols) ELSE 1
  /\ UNCHANGED <<req, vendor>>

PolygonCall ==
  /\ req.provider = Polygon
  /\ out = NoOutput
  /\ out' = CASE req.op = "GetQuote" -> polygonGetQuote(req.ctx, req.symbols[1], vendor)
              [] req.op = "GetQuotes" -> fanOut(Polygon, req.ctx, req.symbols, vendor)
              [] OTHER -> healthCheck(Polygon, req.ctx, vendor)
  /\ getQuoteCalls' = IF req.op = "GetQuotes" THEN Len(req.symbols) ELSE 1
  /\ UNCHANGED <<req, vendor>>

FMPCall ==
  /\ req.provider = FMP
  /\ out = NoOutput
  /\ out' = CASE req.op = "GetQuote" -> fmpGetQuote(req.ctx, req.symbols[1], vendor)
              [] req.op = "GetQuotes" -> fmpGetQuotes(req.ctx, req.symbols, vendor)
              [] OTHER -> healthCheck(FMP, req.ctx, vendor)
  /\ getQuoteCalls' = IF req.op = "GetQuotes" THEN 0 ELSE 1
  /\ UNCHANGED <<req, vendor>>

MockCall ==
  /\ req.provider = Mock
  /\ out = NoOutput
  /\ out' = CASE req.op = "GetQuote" -> mockGetQuote(req.symbols[1], vendor)
              [] req.op = "GetQuotes" -> mockGetQuotes(req.symbols, vendor)
              [] OTHER -> Returned(<<>>,
                                   IF vendor.status # 200
                                   THEN NewProviderErrorOf(vendor.status, errorsNew("HealthError"))
                                   ELSE NilErr, 0)
  /\ getQuoteCalls' = CASE req.op = "GetQuote" -> 1
                        [] req.op = "GetQuotes" /\ vendor.status = 200 -> Len(req.symbols)
                        [] OTHER -> 0
  /\ UNCHANGED <<req, vendor>>

AdaptersUnused ==
  /\ req = [provider |-> Mock, op |-> "HealthCheck", ctx |-> CtxLive,
            symbols |-> <<>>]
  /\ vendor = [status |-> 200, entries |-> <<>>]
  /\ out = NoOutput
  /\ getQuoteCalls = 0

(* ---------------------------- normalization --------------------------- *)

VARIABLES
  data,          \* the quote payload of a vendor's 200 answer, and whose it is
  validated      \* what GetQuote returned for it, NoOutput before

nzVars == <<data, validated>>

\* The quote payloads: the symbol as sent, whether the fields parse (Alpha
\* Vantage sends strings; Polygon and FMP send typed JSON numbers, which
\* always do), the price, the volume and the instant the timestamp denotes.
Payloads ==
  [adapter : Adapters,
   symbol : {<<>>, <<" ">>, <<"a">>},
   parses : BOOLEAN,
   price : (0 - 1)..MaxPrice,
   volume : (0 - 1)..MaxVolume,
   timestamp : 0..MaxTime]

\* The quote the three normalizeQuote build from a payload.
quoteOf(d) ==
  [symbol |-> ToUpper(TrimSpace(d.symbol)), price |-> d.price,
   volume |-> d.volume, timestamp |-> d.timestamp]

\* alphavantage.Provider.normalizeQuote: fails when a field does not parse.
avNormalizeQuote(d) == [ok |-> d.parses, quote |-> quoteOf(d)]

\* polygon.Provider.normalizeQuote: fails on a price <= 0 and on a
\* volume < 0.
polygonNormalizeQuote(d) ==
  [ok |-> ~(d.price <= 0) /\ ~(d.volume < 0), quote |-> quoteOf(d)]

\* financialmodelingprep.Provider.normalizeQuote: as Polygon's.
fmpNormalizeQuote(d) ==
  [ok |-> ~(d.price <= 0) /\ ~(d.volume < 0), quote |-> quoteOf(d)]

\* The end of GetQuote: the normalized quote, or the error of
\* normalizeQuote as a ProviderError with the status of the answer (200).
NormalizeQuote ==
  /\ validated = NoOutput
  /\ LET n == CASE data.adapter = AlphaVantage -> avNormalizeQuote(data)
                [] data.adapter = Polygon -> polygonNormalizeQuote(data)
                [] OTHER -> fmpNormalizeQuote(data)
     IN validated' = IF n.ok
                     THEN Returned(<<n.quote>>, NilErr, 1)
                     ELSE Returned(<<>>, NewProviderErrorOf(200, errorsNew("invalid")), 1)
  /\ UNCHANGED data

NormalizeInit ==
  /\ data \in Payloads
  /\ data.adapter # AlphaVantage => data.parses
  /\ validated = NoOutput

NormalizeUnused ==
  /\ data = [adapter |-> FMP, symbol |-> <<>>, parses |-> TRUE, price |-> 0,
             volume |-> 0, timestamp |-> 0]
  /\ validated = NoOutput

(* ------------------------------ registry ------------------------------ *)

VARIABLES
  providerRegistry,  \* name -> the factory registered, NotRegistered if none
  registryMu,        \* the RWMutex: the goroutine that holds it for writing
                     \* (0 if none) and those that hold it for reading
  regs,              \* each goroutine's position in Register or Create
  created            \* what the Create that has just returned returned and
                     \* invoked, NoCreated in every other state

rgVars == <<providerRegistry, registryMu, regs, created>>

\* The names providers register under and are created by.
RegistryNames == {"alphavantage", "polygon"}

\* A ProviderFactory is the nil func or the one its goroutine registers.
NilFactory == 0
NotRegistered == 0 - 1

\* The configurations handed to Create: the type the factories expect
\* (their package's Config) and any other value.
RegistryConfigs == {"Config", "other"}

IdleReg == [pc |-> "idle", name |-> "", factory |-> NilFactory, config |-> ""]

NoCreated ==
  [name |-> "", config |-> "", found |-> NotRegistered, provider |-> <<>>,
   err |-> NilErr, names |-> {}, invoked |-> <<>>]

\* A registered factory called with a configuration: the provider it makes,
\* or its error when the configuration is not of its type.
factoryResult(factory, cfg) ==
  IF cfg = "Config"
  THEN [provider |-> <<factory, cfg>>, err |-> NilErr]
  ELSE [provider |-> <<>>, err |-> errorsNew("invalid config type")]

\* ListProviders: the keys of the map (in no particular order).
ListProviders_First(registry) ==
  IF registry["alphavantage"] # NotRegistered THEN {"alphavantage"} ELSE {}

ListProviders(registry) == {n \in RegistryNames : registry[n] # NotRegistered}

\* A Lock() that always succeeds.
canLock_NoLock(m) == TRUE

\* registryMu.Lock() can succeed: nobody holds the mutex.
canLock(m) == m.writer = 0 /\ m.readers = {}

\* registryMu.RLock() can succeed: no writer holds the mutex or waits for it.
canRLock(m) ==
  /\ m.writer = 0
  /\ \A g \in Callers : regs[g].pc # "Lock"

\* The positions at which a goroutine waits in registryMu.RLock(): in
\* Create, in the ListProviders that Create calls, and in a ListProviders
\* or IsRegistered of its own.
WaitingRLock == {"RLock", "ListProviders", "readRLock"}

\* Where a goroutine is once its RLock() has returned.
afterRLock(pc) ==
  CASE pc = "RLock" -> "lookup"
    [] pc = "ListProviders" -> "names"
    [] OTHER -> "read"

\* registryMu.Unlock(): the readers that were waiting are all let in, ahead
\* of any other writer (sync.RWMutex).
unlockMu(rs) ==
  [writer |-> 0, readers |-> {h \in Callers : rs[h].pc \in WaitingRLock}]

\* The goroutines after g's Unlock(): g has returned, the waiting readers
\* hold the read lock.
afterUnlock(rs, g) ==
  [h \in Callers |->
     IF h = g THEN IdleReg
     ELSE IF rs[h].pc \in WaitingRLock
     THEN [rs[h] EXCEPT !.pc = afterRLock(@)]
     ELSE rs[h]]

\* A Create that keeps the read lock after the lookup.
createRUnlock_Keeps(readers, g) == readers

\* Create's registryMu.RUnlock(), right after the lookup.
createRUnlock(readers, g) == readers \ {g}

\* Register is called: the goroutine gets to registryMu.Lock().
RegisterCall(g, name, factory) ==
  /\ regs[g].pc = "idle"
  /\ regs' = [regs EXCEPT ![g] = [IdleReg EXCEPT !.pc = "Lock", !.name = name,
                                                 !.factory = factory]]
  /\ created' = NoCreated
  /\ UNCHANGED <<providerRegistry, registryMu>>

\* registryMu.Lock() returns.
RegisterLock(g) ==
  /\ regs[g].pc = "Lock"
  /\ canLock(registryMu)
  /\ registryMu' = [registryMu EXCEPT !.writer = g]
  /\ regs' = [regs EXCEPT ![g].pc = "check"]
  /\ created' = NoCreated
  /\ UNCHANGED providerRegistry

\* The two checks: a nil factory or a name registered already panics, and
\* the deferred Unlock() runs.
RegisterCheck(g) ==
  /\ regs[g].pc = "check"
  /\ IF \/ regs[g].factory = NilFactory
        \/ providerRegistry[regs[g].name] # NotRegistered
     THEN /\ regs' = afterUnlock(regs, g)
          /\ registryMu' = unlockMu(regs)
     ELSE /\ regs' = [regs EXCEPT ![g].pc = "store"]
          /\ UNCHANGED registryMu
  /\ created' = NoCreated
  /\ UNCHANGED providerRegistry

\* providerRegistry[name] = factory, and the deferred Unlock().
RegisterStore(g) ==
  /\ regs[g].pc = "store"
  /\ providerRegistry' = [providerRegistry EXCEPT ![regs[g].name] = regs[g].factory]
  /\ registryMu' = unlockMu(regs)
  /\ regs' = afterUnlock(regs, g)
  /\ created' = NoCreated

\* Create is called: the goroutine gets to registryMu.RLock().
CreateCall(g, name, cfg) ==
  /\ regs[g].pc = "idle"
  /\ regs' = [regs EXCEPT ![g] = [IdleReg EXCEPT !.pc = "RLock", !.name = name,
                                                 !.config = cfg]]
  /\ created' = NoCreated
  /\ UNCHANGED <<providerRegistry, registryMu>>

\* Create's registryMu.RLock() returns.
CreateRLock(g) ==
  /\ regs[g].pc = "RLock"
  /\ canRLock(registryMu)
  /\ registryMu' = [registryMu EXCEPT !.readers = @ \cup {g}]
  /\ regs' = [regs EXCEPT ![g].pc = afterRLock(@)]
  /\ created' = NoCreated
  /\ UNCHANGED providerRegistry

\* factory, ok := providerRegistry[name]; registryMu.RUnlock(). With !ok
\* the goroutine gets to the RLock() of ListProviders.
CreateLookup(g) ==
  /\ regs[g].pc = "lookup"
  /\ registryMu' = [registryMu EXCEPT !.readers = createRUnlock(@, g)]
  /\ regs' = [regs EXCEPT ![g].factory = providerRegistry[regs[g].name],
                          ![g].pc = IF providerRegistry[regs[g].name] = NotRegistered
                                    THEN "ListProviders" ELSE "factory"]
  /\ created' = NoCreated
  /\ UNCHANGED providerRegistry

\* !ok: the RLock() of ListProviders returns.
CreateListRLock(g) ==
  /\ regs[g].pc = "ListProviders"
  /\ canRLock(registryMu)
  /\ registryMu' = [registryMu EXCEPT !.readers = @ \cup {g}]
  /\ regs' = [regs EXCEPT ![g].pc = afterRLock(@)]
  /\ created' = NoCreated
  /\ UNCHANGED providerRegistry

\* ListProviders collects the names and releases the read lock; Create
\* returns nil and the error that lists them.
CreateNotRegistered(g) ==
  /\ regs[g].pc = "names"
  /\ created' = [name |-> regs[g].name, config |-> regs[g].config,
                 found |-> NotRegistered, provider |-> <<>>,
                 err |-> errorsNew("not registered"),
                 names |-> ListProviders(providerRegistry), invoked |-> <<>>]
  /\ registryMu' = [registryMu EXCEPT !.readers = @ \ {g}]
  /\ regs' = [regs EXCEPT ![g] = IdleReg]
  /\ UNCHANGED providerRegistry

\* return factory(config)
CreateFactory(g) ==
  /\ regs[g].pc = "factory"
  /\ LET res == factoryResult(regs[g].factory, regs[g].config) IN
     created' = [name |-> regs[g].name, config |-> regs[g].config,
                 found |-> regs[g].factory, provider |-> res.provider,
                 err |-> res.err, names |-> {},
                 invoked |-> <<<<regs[g].factory, regs[g].config>>>>]
  /\ regs' = [regs EXCEPT ![g] = IdleReg]
  /\ UNCHANGED <<providerRegistry, registryMu>>

\* ListProviders() or IsRegistered(name) is called: the goroutine gets to
\* registryMu.RLock().
ReadCall(g) ==
  /\ regs[g].pc = "idle"
  /\ regs' = [regs EXCEPT ![g] = [IdleReg EXCEPT !.pc = "readRLock"]]
  /\ created' = NoCreated
  /\ UNCHANGED <<providerRegistry, registryMu>>

\* Its registryMu.RLock() returns.
ReadRLock(g) ==
  /\ regs[g].pc = "readRLock"
  /\ canRLock(registryMu)
  /\ registryMu' = [registryMu EXCEPT !.readers = @ \cup {g}]
  /\ regs' = [regs EXCEPT ![g].pc = afterRLock(@)]
  /\ created' = NoCreated
  /\ UNCHANGED providerRegistry

\* The map is read and the deferred RUnlock() runs.
ReadRUnlock(g) ==
  /\ regs[g].pc = "read"
  /\ registryMu' = [registryMu EXCEPT !.readers = @ \ {g}]
  /\ regs' = [regs EXCEPT ![g] = IdleReg]
  /\ created' = NoCreated
  /\ UNCHANGED providerRegistry

\* A step of the call goroutine g is in.
RegistryStep(g) ==
  \/ RegisterLock(g)
  \/ RegisterCheck(g)
  \/ RegisterStore(g)
  \/ CreateRLock(g)
  \/ CreateLookup(g)
  \/ CreateListRLock(g)
  \/ CreateNotRegistered(g)
  \/ CreateFactory(g)
  \/ ReadRLock(g)
  \/ ReadRUnlock(g)

\* The package's variables as initialized: an empty map, a free mutex.
RegistryInit ==
  /\ providerRegistry = [n \in RegistryNames |-> NotRegistered]
  /\ registryMu = [writer |-> 0, readers |-> {}]
  /\ regs = [g \in Callers |-> IdleReg]
  /\ created = NoCreated

RegistryUnused == RegistryInit

(* -------------------------- retry middleware -------------------------- *)

VARIABLES
  retryConfig,   \* max_attempts, initial_backoff, max_backoff, multiplier, jitter
  innerPlan,     \* the inner provider: fails k times with err, then succeeds
  rt             \* the call through the middleware

rtVars == <<retryConfig, innerPlan, rt>>

RetryConfigs ==
  {c \in [maxAttempts : 1..MaxAttempts,
          initialBackoff : 1..MaxInitialBackoff,
          maxBackoff : 1..MaxBackoff,
          multiplier : 1..MaxMultiplier,
          jitter : BOOLEAN] : c.maxBackoff >= c.initialBackoff}

\* A call: where it is, the invocations of the inner provider and the
\* sleeps so far, the delay of the latest sleep and of the one before,
\* whether the caller has cancelled the context, and what was returned.
IdleRetry ==
  [pc |-> "idle", innerCalls |-> 0, sleeps |-> 0, backoff |-> 0,
   prevBackoff |-> 0, cancelled |-> FALSE, ret |-> NilErr]

RECURSIVE pow(_, _)
pow(b, e) == IF e = 0 THEN 1 ELSE b * pow(b, e - 1)

\* backoff = min(max_backoff, initial_backoff * multiplier^attempt_index)
backoffAt(cfg, attemptIndex) ==
  min(cfg.maxBackoff, cfg.initialBackoff * pow(cfg.multiplier, attemptIndex))

\* The delays slept for a backoff: the backoff, or with jitter the backoff
\* times a factor in [1.0, 1.5).
sleepFor(cfg, backoff) ==
  IF cfg.jitter
  THEN {d \in backoff..(2 * backoff) : 2 * d < 3 * backoff}
  ELSE {backoff}

\* Attempts that remain after one more than the configured number.
attemptsRemain_OneMore(cfg, innerCalls) == innerCalls <= cfg.maxAttempts

\* Attempts remain: the initial try counts.
attemptsRemain(cfg, innerCalls) == innerCalls < cfg.maxAttempts

\* A sleep that does not look at the context.
sleepEnds_IgnoresCtx(r) == TRUE

\* The sleep ends by its timer unless the context is cancelled.
sleepEnds(r) == ~r.cancelled

\* What the inner provider returns to its n-th invocation.
innerReturns(plan, n) == IF n <= plan.k THEN plan.err ELSE NilErr

\* The call is made.
RetryCall ==
  /\ rt.pc = "idle"
  /\ rt' = [rt EXCEPT !.pc = "attempt"]
  /\ UNCHANGED <<retryConfig, innerPlan>>

\* One attempt: invoke the inner provider; return on success, on an error
\* that is not retryable and on exhaustion (the last error); otherwise
\* compute the backoff and go to sleep.
RetryAttempt ==
  /\ rt.pc = "attempt"
  /\ LET n == rt.innerCalls + 1
         err == innerReturns(innerPlan, n)
     IN IF err = NilErr \/ ~err.retryable \/ ~attemptsRemain(retryConfig, n)
        THEN rt' = [rt EXCEPT !.pc = "done", !.innerCalls = n, !.ret = err]
        ELSE \E d \in sleepFor(retryConfig, backoffAt(retryConfig, rt.sleeps)) :
               rt' = [rt EXCEPT !.pc = "sleeping", !.innerCalls = n,
                                !.sleeps = @ + 1, !.backoff = d,
                                !.prevBackoff = rt.backoff]
  /\ UNCHANGED <<retryConfig, innerPlan>>

\* The backoff has passed.
RetryWake ==
  /\ rt.pc = "sleeping"
  /\ sleepEnds(rt)
  /\ rt' = [rt EXCEPT !.pc = "attempt"]
  /\ UNCHANGED <<retryConfig, innerPlan>>

\* The caller cancels the context.
RetryCancel ==
  /\ rt.pc \in {"attempt", "sleeping"}
  /\ ~rt.cancelled
  /\ rt' = [rt EXCEPT !.cancelled = TRUE]
  /\ UNCHANGED <<retryConfig, innerPlan>>

\* The sleep returns at once on cancellation, with the cancellation error.
RetryCtxDone ==
  /\ rt.pc = "sleeping"
  /\ rt.cancelled
  /\ rt' = [rt EXCEPT !.pc = "done", !.ret = CtxCanceled]
  /\ UNCHANGED <<retryConfig, innerPlan>>

\* Any valid configuration, around an inner provider that fails k times
\* with a transient error (503) or with a permanent one (401).
RetryInit ==
  /\ retryConfig \in RetryConfigs
  /\ innerPlan \in [k : 0..MaxAttempts,
                    err : {NewProviderError(503), NewProviderError(401)}]
  /\ rt = IdleRetry

RetryUnused ==
  /\ retryConfig = [maxAttempts |-> 1, initialBackoff |-> 1, maxBackoff |-> 1,
                    multiplier |-> 1, jitter |-> FALSE]
  /\ innerPlan = [k |-> 0, err |-> NewProviderError(503)]
  /\ rt = IdleRetry

(* ------------------------ rate-limited provider ----------------------- *)

VARIABLES
  rl             \* the call through the RateLimitedProvider

rlVars == <<rl>>

\* The goroutine that calls the provider.
RateLimitedCaller == CHOOSE c \in Callers : TRUE

\* No call yet. Of a call: the method and the number of symbols it is given,
\* the invocations of r.provider, what r.provider returned, and what the
\* method returned.
IdleRateLimited ==
  [pc |-> "idle", op |-> "none", symbols |-> 0, innerCalls |-> 0,
   inner |-> NoResult, ret |-> NoResult]

\* The error value of what Wait returned.
waitError(ret) == IF ret = "context.Canceled" THEN CtxCanceled ELSE NilErr

\* GetQuote, GetQuotes or HealthCheck is called: r.limiter.Wait(ctx) is its
\* first statement.
RateLimitedBegin(op, n, ctxCancelled) ==
  /\ rl.pc \in {"idle", "returned"}
  /\ op = "GetQuote" => n = 1
  /\ op = "HealthCheck" => n = 0
  /\ Call(RateLimitedCaller, "Wait", ctxCancelled)
  /\ rl' = [IdleRateLimited EXCEPT !.pc = "Wait", !.op = op, !.symbols = n]

\* Wait has returned: its error is returned, or r.provider is called and
\* what it returns is returned.
RateLimitedReturn(inner) ==
  /\ rl.pc = "Wait"
  /\ waits[RateLimitedCaller].pc = "done"
  /\ LET d == RateLimitedCall(waits[RateLimitedCaller].ret) IN
     rl' = [rl EXCEPT !.pc = "returned",
                      !.innerCalls = d.innerCalls,
                      !.inner = IF d.innerCalls = 0 THEN NoResult ELSE inner,
                      !.ret = IF d.innerCalls = 0
                              THEN [quote |-> NoQuote, err |-> waitError(d.err)]
                              ELSE inner]
  /\ UNCHANGED tbVars

\* Name(): r.provider.Name(), without the limiter.
RateLimitedName ==
  /\ rl.pc \in {"idle", "returned"}
  /\ rl' = [IdleRateLimited EXCEPT !.pc = "returned", !.op = "Name"]
  /\ UNCHANGED tbVars

RateLimitedProviderUnused == rl = IdleRateLimited

(* ------------------------- observable provider ------------------------ *)

VARIABLES
  ob             \* the last call through the ObservableProvider

obVars == <<ob>>

\* No call yet. Of a call: the method, its context and arguments, the calls
\* it made to o.provider (method, context and arguments of each), what
\* o.provider returned, what the method returned, and the levels of the
\* records it logged.
NoObserved ==
  [pc |-> "idle", op |-> "none", ctx |-> CtxLive, args |-> <<>>,
   innerCalls |-> <<>>, innerRet |-> NoResult, ret |-> NoResult, logged |-> <<>>]

\* The arguments of a method besides its context: a symbol, a list of
\* symbols, nothing.
ObservedArgs(op) ==
  CASE op = "GetQuote" -> Symbols
    [] op = "GetQuotes" -> SeqUpTo(Symbols, MaxSymbols)
    [] OTHER -> {<<>>}

\* What o.provider may return: a result, an error, the error of a cancelled
\* context, and for a batch some quotes together with an error.
ObservedResults(op) ==
  InnerResults(op)
    \cup {[quote |-> NoQuote, err |-> CtxCanceled]}
    \cup (IF op = "GetQuotes"
          THEN {[quote |-> "quote", err |-> NewProviderError(503)]}
          ELSE {})

\* A wrapper that logs the error of o.provider and returns none.
observe_SwallowsError(op, ctx, args, inner) ==
  [innerCalls |-> <<[op |-> op, ctx |-> ctx, args |-> args]>>,
   ret |-> [quote |-> IF inner.err # NilErr THEN NoQuote ELSE inner.quote,
            err |-> NilErr],
   logged |-> <<"Debug", IF inner.err # NilErr THEN "Error" ELSE "Info">>]

\* GetQuote / GetQuotes / HealthCheck: a Debug record, the call to
\* o.provider, then an Error record and (nil, err), or an Info record and
\* what o.provider returned.
observe(op, ctx, args, inner) ==
  [innerCalls |-> <<[op |-> op, ctx |-> ctx, args |-> args]>>,
   ret |-> IF inner.err # NilErr
           THEN [quote |-> NoQuote, err |-> inner.err]
           ELSE [quote |-> inner.quote, err |-> NilErr],
   logged |-> <<"Debug", IF inner.err # NilErr THEN "Error" ELSE "Info">>]

\* A call of GetQuote, GetQuotes or HealthCheck.
ObservableCall(op, ctx, args, inner) ==
  LET o == observe(op, ctx, args, inner) IN
  ob' = [pc |-> "returned", op |-> op, ctx |-> ctx, args |-> args,
         innerCalls |-> o.innerCalls, innerRet |-> inner, ret |-> o.ret,
         logged |-> o.logged]

ObservableUnused == ob = NoObserved

(* ------------------------ sequential fan-out --------------------------- *)

VARIABLES
  fan            \* the GetQuotes loop of Alpha Vantage and Polygon, step by step

fanVars == <<fan>>

\* Before GetQuotes is entered. In the loop: i is the index of the range
\* loop (from 1), quotes the slice being filled, calls the symbols GetQuote
\* was called with so far, inFlight the GetQuote calls that have not
\* returned, and requests the HTTP requests sent.
IdleFan ==
  [pc |-> "idle", i |-> 0, quotes |-> <<>>, calls |-> <<>>, inFlight |-> 0,
   requests |-> 0]

\* A loop that gives up at the first symbol that fails.
afterError_Breaks(i, n) == n + 1

\* continue: on to the next symbol.
afterError(i, n) == i + 1

\* quotes := make([]*model.Quote, len(symbols))
FanOutEnter ==
  /\ fan.pc = "idle"
  /\ fan' = [IdleFan EXCEPT !.pc = "loop", !.i = 1,
                            !.quotes = [k \in 1..Len(req.symbols) |-> NilQuote]]
  /\ UNCHANGED <<req, vendor, out, getQuoteCalls>>

\* for i, symbol := range symbols: p.GetQuote(ctx, symbol) is called.
FanOutGetQuote ==
  /\ fan.pc = "loop"
  /\ fan.i <= Len(req.symbols)
  /\ fan' = [fan EXCEPT !.pc = "GetQuote",
                        !.calls = Append(@, req.symbols[fan.i]),
                        !.inFlight = @ + 1]
  /\ UNCHANGED <<req, vendor, out, getQuoteCalls>>

\* p.GetQuote returns: quotes[i] is nil for an error, the quote otherwise.
FanOutStore ==
  /\ fan.pc = "GetQuote"
  /\ LET r == getQuote(req.provider, ctxAt(req.ctx, fan.i), req.symbols[fan.i],
                       respFor(vendor, fan.i))
     IN fan' = [fan EXCEPT
                  !.pc = "loop",
                  !.inFlight = @ - 1,
                  !.requests = @ + r.requests,
                  !.quotes[fan.i] = IF r.err # NilErr THEN NilQuote ELSE r.quotes[1],
                  !.i = IF r.err # NilErr
                        THEN afterError(fan.i, Len(req.symbols))
                        ELSE fan.i + 1]
  /\ UNCHANGED <<req, vendor, out, getQuoteCalls>>

\* return quotes, nil
FanOutReturn ==
  /\ fan.pc = "loop"
  /\ fan.i > Len(req.symbols)
  /\ fan' = [fan EXCEPT !.pc = "returned"]
  /\ out' = Returned(fan.quotes, NilErr, fan.requests)
  /\ getQuoteCalls' = Len(fan.calls)
  /\ UNCHANGED <<req, vendor>>

\* A GetQuotes call to Alpha Vantage or Polygon; the vendor answers each
\* request for the symbol it was asked, with numbers that pass validation or
\* not, or has no answer for it.
FanOutInit ==
  /\ AdapterInit
  /\ req.provider \in {AlphaVantage, Polygon}
  /\ req.op = "GetQuotes"
  /\ Len(vendor.entries) <= Len(req.symbols)
  /\ \A k \in 1..Len(vendor.entries) : vendor.entries[k].symbol = req.symbols[k]
  /\ fan = IdleFan

FanOutUnused == fan = IdleFan

(* --------------------------- ParseTimestamp ---------------------------- *)

\* The arithmetic of ParseTimestamp at a reduced scale, the proportions of
\* the code kept: the threshold 1e12 between seconds and milliseconds, the
\* nanoseconds of time.Millisecond, the milliseconds of a second, and the
\* width of an int64. As in the code, a millisecond count a few times the
\* threshold no longer fits an int64 once multiplied by time.Millisecond.
MsThreshold == 8
NanosPerMilli == 4
MillisPerSecond == 2
Int64Bits == 9

NanosPerSecond == NanosPerMilli * MillisPerSecond

\* int64 arithmetic: the result modulo 2^Int64Bits, in two's complement.
wrap64(x) ==
  LET half == pow(2, Int64Bits - 1) IN ((x + half) % (2 * half)) - half

VARIABLES
  raw,           \* the value given to ParseTimestamp
  parsed         \* what ParseTimestamp returned

tsVars == <<raw, parsed>>

\* The numeric inputs: an int64, an int, a float64 (a whole number of seconds
\* or milliseconds, or one half more), and a time.Time in some location.
RawTimestamps ==
  [type : {"int64", "int"}, v : 0..MaxTimestamp, half : {0}, loc : {"none"}]
    \cup [type : {"float64"}, v : 0..MaxTimestamp, half : {0, 1}, loc : {"none"}]
    \cup [type : {"time.Time"}, v : 0..MaxTimestamp, half : {0}, loc : {"UTC", "Local"}]

\* A time.Time: the instant in nanoseconds since the Unix epoch, and the
\* location.
Time(ns, loc) == [ns |-> ns, loc |-> loc]

\* time.Unix(sec, nsec)
timeUnix(sec, nsec) == Time(sec * NanosPerSecond + nsec, "Local")

\* t.UTC()
UTC(t) == Time(t.ns, "UTC")

NotParsed == [done |-> FALSE, t |-> Time(0, "none")]

\* case int64
parseInt64(v) ==
  IF v > MsThreshold
  THEN UTC(timeUnix(0, wrap64(v * NanosPerMilli)))
  ELSE UTC(timeUnix(v, 0))

\* case int
parseInt(v) == UTC(timeUnix(v, 0))

\* case float64: sec := int64(v); nsec := int64((v - float64(sec)) * 1e9)
parseFloat64(v, half) == UTC(timeUnix(v, (half * NanosPerSecond) \div 2))

ParseTimestamp ==
  /\ ~parsed.done
  /\ parsed' = [done |-> TRUE,
                t |-> CASE raw.type = "int64" -> parseInt64(raw.v)
                        [] raw.type = "int" -> parseInt(raw.v)
                        [] raw.type = "float64" -> parseFloat64(raw.v, raw.half)
                        [] OTHER -> UTC(Time(raw.v, raw.loc))]
  /\ UNCHANGED raw

TimestampInit ==
  /\ raw \in RawTimestamps
  /\ parsed = NotParsed

TimestampUnused ==
  /\ raw = [type |-> "int64", v |-> 0, half |-> 0, loc |-> "none"]
  /\ parsed = NotParsed

(* ------------------------------- Name() -------------------------------- *)

VARIABLES
  stack,         \* the provider Name() is called on: its middlewares, the
                 \* outermost first, and its base adapter
  named          \* what the Name() calls made so far returned

nmVars == <<stack, named>>

\* The middlewares whose Name() is in the source.
NameLayers == {RateLimitLayer, CircuitBreakerLayer, ObservabilityLayer}

\* Name() of the three adapters, as the characters of the string.
adapterName(adapter) ==
  CASE adapter = AlphaVantage ->
         <<"a", "l", "p", "h", "a", "v", "a", "n", "t", "a", "g", "e">>
    [] adapter = Polygon -> <<"p", "o", "l", "y", "g", "o", "n">>
    [] OTHER -> <<"f", "m", "p">>

\* A circuit breaker that has no name to give while it is OPEN.
nameThrough_OpenGivesNone(layer, inner, st) ==
  IF layer = CircuitBreakerLayer /\ st = StateOpen THEN <<>> ELSE inner

\* Name() of a middleware: r.provider.Name(), cb.provider.Name(),
\* o.provider.Name(), whatever the state of the breaker.
nameThrough(layer, inner, st) == inner

RECURSIVE nameOf(_, _, _)
\* Name() of the composition: each layer asks the one it wraps.
nameOf(layers, adapter, st) ==
  IF layers = <<>>
  THEN adapterName(adapter)
  ELSE nameThrough(Head(layers), nameOf(Tail(layers), adapter, st), st)

\* Name() is called, twice at most.
NameCall ==
  /\ Len(named) < 2
  /\ named' = Append(named, nameOf(stack.layers, stack.base, state))
  /\ UNCHANGED stack

\* A composition of middlewares around one of the adapters.
NameInit ==
  /\ stack \in [layers : SeqUpTo(NameLayers, MaxLayers), base : Adapters]
  /\ named = <<>>

NameUnused ==
  /\ stack = [layers |-> <<>>, base |-> AlphaVantage]
  /\ named = <<>>

\* A breaker in one of the states it gets to: CLOSED below max_failures,
\* OPEN or HALF_OPEN with max_failures reached or passed.
BreakerAnyState ==
  /\ config \in [MaxFailures : 1..MaxMaxFailures, ResetTimeout : 1..MaxResetTimeout]
  /\ state \in {StateClosed, StateOpen, StateHalfOpen}
  /\ failures \in 0..(config.MaxFailures + 1)
  /\ state = StateClosed <=> failures < config.MaxFailures
  /\ lastFailureTime = IF failures = 0 THEN ZeroTime ELSE 0
  /\ calls = [c \in Callers |-> IdleCall]
  /\ lastReturn = NoReturn
  /\ consec = 0
  /\ lastFailAt = ZeroTime
  /\ probe = NoProbe
  /\ afterReset = NoReset

\* A limiter with its bucket full or empty.
LimiterAnyTokens ==
  /\ \E m \in 1..MaxRequests, w \in 1..MaxWindow :
       /\ w >= m
       /\ tb = NewTokenBucketLimiter(m, w)
  /\ tokens \in {0, tb.capacity}
  /\ lastCheck = now
  /\ mu = 0
  /\ waits = [c \in Callers |-> IdleWait]
  /\ granted = 0
  /\ failedAtZero = FALSE
  /\ waitLog = NoLog
  /\ allowLog = NoLog

(* ------------------------------- clock -------------------------------- *)

\* The variables of the components that know no clock.
fnVars == <<bVars, ecVars, adVars, nzVars, rgVars, rtVars, rlVars, obVars, fanVars, tsVars, nmVars>>

\* A builder nobody uses.
BuilderUnused ==
  /\ provider = <<BaseAdapter>>
  /\ built = NotBuilt

FnUnused == BuilderUnused /\ ErrorsUnused /\ AdaptersUnused /\ NormalizeUnused /\ RegistryUnused /\ RetryUnused /\ RateLimitedProviderUnused /\ ObservableUnused /\ FanOutUnused /\ TimestampUnused /\ NameUnused

\* Time passes.
Tick ==
  /\ now < MaxTime
  /\ now' = now + 1
  /\ UNCHANGED <<cbVars, tbVars, fnVars>>

\* Time passes for as long as a caller sleeps in Wait's select with its
\* timer still to fire.
Elapse ==
  /\ \E c \in Callers : waits[c].pc = "sleep" /\ now < waits[c].wakeAt
  /\ now' = now + 1
  /\ UNCHANGED <<cbVars, tbVars, fnVars>>

(* --------------------------- specifications --------------------------- *)

vars == <<now, cbVars, tbVars, fnVars>>

\* The limiter of a run that is about the breaker alone.
LimiterUnused ==
  /\ tb = NewTokenBucketLimiter(1, 1)
  /\ tokens = tb.capacity
  /\ lastCheck = 0
  /\ mu = 0
  /\ waits = [c \in Callers |-> IdleWait]
  /\ granted = 0
  /\ failedAtZero = FALSE
  /\ waitLog = NoLog
  /\ allowLog = NoLog

\* The breaker of a run that is about the limiter alone.
BreakerUnused ==
  /\ config = [MaxFailures |-> 1, ResetTimeout |-> 1]
  /\ state = StateClosed
  /\ failures = 0
  /\ lastFailureTime = ZeroTime
  /\ calls = [c \in Callers |-> IdleCall]
  /\ lastReturn = NoReturn
  /\ consec = 0
  /\ lastFailAt = ZeroTime
  /\ probe = NoProbe
  /\ afterReset = NoReset

\* One circuit breaker, its callers and the clock.
BreakerInit ==
  /\ now = 0
  /\ FnUnused
  /\ NewCircuitBreakerProvider
  /\ LimiterUnused

BreakerNext ==
  \/ \E c \in Callers, op \in Ops : Enter(c, op) /\ UNCHANGED <<tbVars, fnVars>>
  \/ \E c \in Callers, r \in AllInnerResults : Exit(c, r) /\ UNCHANGED <<tbVars, fnVars>>
  \/ Reset /\ UNCHANGED <<tbVars, fnVars>>
  \/ Tick

BreakerSpec == BreakerInit /\ [][BreakerNext]_vars

\* One token-bucket limiter, its callers and the clock.
TokenBucketInit ==
  /\ now = 0
  /\ FnUnused
  /\ LimiterInit(NoLog, NoLog)
  /\ BreakerUnused

TokenBucketNext ==
  \/ \E c \in Callers, op \in LimiterOps, x \in BOOLEAN :
       Call(c, op, x) /\ UNCHANGED <<now, cbVars, fnVars>>
  \/ \E c \in Callers : Check(c) /\ UNCHANGED <<now, cbVars, fnVars>>
  \/ \E c \in Callers : Take(c) /\ UNCHANGED <<now, cbVars, fnVars>>
  \/ \E c \in Callers : CancelCtx(c) /\ UNCHANGED <<now, cbVars, fnVars>>
  \/ \E c \in Callers : CtxDone(c) /\ UNCHANGED <<now, cbVars, fnVars>>
  \/ \E c \in Callers : Wake(c) /\ UNCHANGED <<now, cbVars, fnVars>>
  \/ Tick

TokenBucketSpec == TokenBucketInit /\ [][TokenBucketNext]_vars

\* One token-bucket limiter whose callers call Allow() only, with the log of
\* the instants at which Allow() returned true.
AllowInit ==
  /\ now = 0
  /\ FnUnused
  /\ LimiterInit(NoLog, EmptyLog)
  /\ BreakerUnused

AllowNext ==
  \/ \E c \in Callers : Call(c, "Allow", FALSE) /\ UNCHANGED <<now, cbVars, fnVars>>
  \/ \E c \in Callers : Check(c) /\ UNCHANGED <<now, cbVars, fnVars>>
  \/ \E c \in Callers : Take(c) /\ UNCHANGED <<now, cbVars, fnVars>>
  \/ Tick

AllowSpec == AllowInit /\ [][AllowNext]_vars

\* One token-bucket limiter whose callers call Wait() only, with the log of
\* the admissions.
WaitInit ==
  /\ now = 0
  /\ FnUnused
  /\ LimiterInit(NoAdmissions, NoLog)
  /\ BreakerUnused

WaitNext ==
  \/ \E c \in Callers, x \in BOOLEAN :
       Call(c, "Wait", x) /\ UNCHANGED <<now, cbVars, fnVars>>
  \/ \E c \in Callers : Check(c) /\ UNCHANGED <<now, cbVars, fnVars>>
  \/ \E c \in Callers : Take(c) /\ UNCHANGED <<now, cbVars, fnVars>>
  \/ \E c \in Callers : CancelCtx(c) /\ UNCHANGED <<now, cbVars, fnVars>>
  \/ \E c \in Callers : CtxDone(c) /\ UNCHANGED <<now, cbVars, fnVars>>
  \/ \E c \in Callers : Wake(c) /\ UNCHANGED <<now, cbVars, fnVars>>
  \/ Tick

WaitSpec == WaitInit /\ [][WaitNext]_vars

\* A step of the Wait call of caller c.
WaitStep(c) ==
  (Check(c) \/ Take(c) \/ CtxDone(c) \/ Wake(c)) /\ UNCHANGED <<now, cbVars, fnVars>>

\* Callers that call Wait once each, under the scheduling of Go and with
\* time advancing: a goroutine that can go on with its call does, and the
\* clock goes on while a timer is pending.
WaitOnceInit ==
  /\ now = 0
  /\ FnUnused
  /\ LimiterInit(NoLog, NoLog)
  /\ BreakerUnused

WaitOnceNext ==
  \/ \E c \in Callers, x \in BOOLEAN :
       waits[c].pc = "idle" /\ Call(c, "Wait", x) /\ UNCHANGED <<now, cbVars, fnVars>>
  \/ \E c \in Callers : CancelCtx(c) /\ UNCHANGED <<now, cbVars, fnVars>>
  \/ \E c \in Callers : WaitStep(c)
  \/ Elapse

WaitOnceSpec ==
  /\ WaitOnceInit
  /\ [][WaitOnceNext]_vars
  /\ \A c \in Callers : WF_vars(WaitStep(c))
  /\ WF_vars(Elapse)

\* One RateLimitedProvider over a token-bucket limiter: every call starts
\* with Wait(ctx), and the callers hand over a context that is either
\* cancelled already or never cancelled.
RateLimitedInit ==
  /\ now = 0
  /\ FnUnused
  /\ LimiterInit(NoLog, NoLog)
  /\ BreakerUnused

RateLimitedNext ==
  \/ \E c \in Callers, x \in BOOLEAN :
       Call(c, "Wait", x) /\ UNCHANGED <<now, cbVars, fnVars>>
  \/ \E c \in Callers : Check(c) /\ UNCHANGED <<now, cbVars, fnVars>>
  \/ \E c \in Callers : Take(c) /\ UNCHANGED <<now, cbVars, fnVars>>
  \/ \E c \in Callers : CtxDone(c) /\ UNCHANGED <<now, cbVars, fnVars>>
  \/ \E c \in Callers : Wake(c) /\ UNCHANGED <<now, cbVars, fnVars>>
  \/ Tick

RateLimitedSpec == RateLimitedInit /\ [][RateLimitedNext]_vars

\* One ProviderBuilder and the With... calls made on it, in any order.
BuilderInit ==
  /\ now = 0
  /\ NewProviderBuilder
  /\ BreakerUnused
  /\ LimiterUnused
  /\ NameUnused
  /\ TimestampUnused
  /\ FanOutUnused
  /\ ObservableUnused
  /\ RateLimitedProviderUnused
  /\ RetryUnused
  /\ RegistryUnused
  /\ NormalizeUnused
  /\ ErrorsUnused
  /\ AdaptersUnused

BuilderNext ==
  \/ WithRateLimit /\ UNCHANGED <<now, cbVars, tbVars, ecVars, adVars, nzVars, rgVars, rtVars, rlVars, obVars, fanVars, tsVars, nmVars>>
  \/ WithRetry /\ UNCHANGED <<now, cbVars, tbVars, ecVars, adVars, nzVars, rgVars, rtVars, rlVars, obVars, fanVars, tsVars, nmVars>>
  \/ WithCircuitBreaker /\ UNCHANGED <<now, cbVars, tbVars, ecVars, adVars, nzVars, rgVars, rtVars, rlVars, obVars, fanVars, tsVars, nmVars>>
  \/ WithObservability /\ UNCHANGED <<now, cbVars, tbVars, ecVars, adVars, nzVars, rgVars, rtVars, rlVars, obVars, fanVars, tsVars, nmVars>>
  \/ Build /\ UNCHANGED <<now, cbVars, tbVars, ecVars, adVars, nzVars, rgVars, rtVars, rlVars, obVars, fanVars, tsVars, nmVars>>

BuilderSpec == BuilderInit /\ [][BuilderNext]_vars

\* One ProviderError made for one status code.
ErrorSpecInit ==
  /\ now = 0
  /\ ErrorInit
  /\ BreakerUnused
  /\ LimiterUnused
  /\ NameUnused
  /\ TimestampUnused
  /\ FanOutUnused
  /\ ObservableUnused
  /\ RateLimitedProviderUnused
  /\ RetryUnused
  /\ RegistryUnused
  /\ NormalizeUnused
  /\ BuilderUnused
  /\ AdaptersUnused

ErrorNext == MakeError /\ UNCHANGED <<now, cbVars, tbVars, bVars, adVars, nzVars, rgVars, rtVars, rlVars, obVars, fanVars, tsVars, nmVars>>

ErrorSpec == ErrorSpecInit /\ [][ErrorNext]_vars

\* One call of one method of one provider, and the vendor's answer.
AdapterSpecInit ==
  /\ now = 0
  /\ AdapterInit
  /\ BreakerUnused
  /\ LimiterUnused
  /\ NameUnused
  /\ TimestampUnused
  /\ FanOutUnused
  /\ ObservableUnused
  /\ RateLimitedProviderUnused
  /\ RetryUnused
  /\ RegistryUnused
  /\ NormalizeUnused
  /\ BuilderUnused
  /\ ErrorsUnused

AdapterNext ==
  \/ AlphaVantageCall /\ UNCHANGED <<now, cbVars, tbVars, bVars, ecVars, nzVars, rgVars, rtVars, rlVars, obVars, fanVars, tsVars, nmVars>>
  \/ PolygonCall /\ UNCHANGED <<now, cbVars, tbVars, bVars, ecVars, nzVars, rgVars, rtVars, rlVars, obVars, fanVars, tsVars, nmVars>>
  \/ FMPCall /\ UNCHANGED <<now, cbVars, tbVars, bVars, ecVars, nzVars, rgVars, rtVars, rlVars, obVars, fanVars, tsVars, nmVars>>
  \/ MockCall /\ UNCHANGED <<now, cbVars, tbVars, bVars, ecVars, nzVars, rgVars, rtVars, rlVars, obVars, fanVars, tsVars, nmVars>>

AdapterSpec == AdapterSpecInit /\ [][AdapterNext]_vars

\* One payload at one instant, normalized by the adapter it was sent to.
NormalizeSpecInit ==
  /\ now \in 0..MaxTime
  /\ NormalizeInit
  /\ BreakerUnused
  /\ LimiterUnused
  /\ NameUnused
  /\ TimestampUnused
  /\ FanOutUnused
  /\ ObservableUnused
  /\ RateLimitedProviderUnused
  /\ RetryUnused
  /\ RegistryUnused
  /\ BuilderUnused
  /\ ErrorsUnused
  /\ AdaptersUnused

NormalizeNext ==
  NormalizeQuote /\ UNCHANGED <<now, cbVars, tbVars, bVars, ecVars, adVars, rgVars, rtVars, rlVars, obVars, fanVars, tsVars, nmVars>>

NormalizeSpec == NormalizeSpecInit /\ [][NormalizeNext]_vars

\* Goroutines that call Register and Create, each Register with the nil
\* factory or with the goroutine's own.
RegistrySpecInit ==
  /\ now = 0
  /\ RegistryInit
  /\ BreakerUnused
  /\ LimiterUnused
  /\ NameUnused
  /\ TimestampUnused
  /\ FanOutUnused
  /\ ObservableUnused
  /\ RateLimitedProviderUnused
  /\ RetryUnused
  /\ BuilderUnused
  /\ ErrorsUnused
  /\ AdaptersUnused
  /\ NormalizeUnused

\* What a step of the registry leaves alone.
RegistryFrame ==
  UNCHANGED <<now, cbVars, tbVars, bVars, ecVars, adVars, nzVars, rtVars, rlVars,
              obVars, fanVars, tsVars, nmVars>>

RegistryNext ==
  \/ \E g \in Callers, name \in RegistryNames : \E factory \in {NilFactory, g} :
       RegisterCall(g, name, factory) /\ RegistryFrame
  \/ \E g \in Callers : RegisterLock(g) /\ RegistryFrame
  \/ \E g \in Callers : RegisterCheck(g) /\ RegistryFrame
  \/ \E g \in Callers : RegisterStore(g) /\ RegistryFrame
  \/ \E g \in Callers, name \in RegistryNames, cfg \in RegistryConfigs :
       CreateCall(g, name, cfg) /\ RegistryFrame
  \/ \E g \in Callers : CreateRLock(g) /\ RegistryFrame
  \/ \E g \in Callers : CreateLookup(g) /\ RegistryFrame
  \/ \E g \in Callers : CreateListRLock(g) /\ RegistryFrame
  \/ \E g \in Callers : CreateNotRegistered(g) /\ RegistryFrame
  \/ \E g \in Callers : CreateFactory(g) /\ RegistryFrame
  \/ \E g \in Callers : ReadCall(g) /\ RegistryFrame
  \/ \E g \in Callers : ReadRLock(g) /\ RegistryFrame
  \/ \E g \in Callers : ReadRUnlock(g) /\ RegistryFrame

RegistrySpec == RegistrySpecInit /\ [][RegistryNext]_vars

\* The registry under the scheduling of Go: a goroutine that can take a
\* step of its call takes it in the end, and a Lock() that can return again
\* and again does return (sync.Mutex hands the lock to a starving waiter).
\* The calls are those that differ in what they do with the lock: Register
\* of one name (stored by the first, a panic for the others), Create of
\* that name (found or not), ListProviders and IsRegistered.
RegistryFairNext ==
  \/ \E g \in Callers : RegisterCall(g, "alphavantage", g) /\ RegistryFrame
  \/ \E g \in Callers : CreateCall(g, "alphavantage", "Config") /\ RegistryFrame
  \/ \E g \in Callers : ReadCall(g) /\ RegistryFrame
  \/ \E g \in Callers : RegistryStep(g) /\ RegistryFrame

RegistryFairSpec ==
  /\ RegistrySpecInit
  /\ [][RegistryFairNext]_vars
  /\ \A g \in Callers :
       /\ WF_vars(RegistryStep(g) /\ RegistryFrame)
       /\ SF_vars(RegisterLock(g) /\ RegistryFrame)

\* One call through the retry middleware.
RetrySpecInit ==
  /\ now = 0
  /\ RetryInit
  /\ BreakerUnused
  /\ LimiterUnused
  /\ NameUnused
  /\ TimestampUnused
  /\ FanOutUnused
  /\ ObservableUnused
  /\ RateLimitedProviderUnused
  /\ BuilderUnused
  /\ ErrorsUnused
  /\ AdaptersUnused
  /\ NormalizeUnused
  /\ RegistryUnused

RetryNext ==
  \/ RetryCall /\ UNCHANGED <<now, cbVars, tbVars, bVars, ecVars, adVars, nzVars, rgVars, rlVars, obVars, fanVars, tsVars, nmVars>>
  \/ RetryAttempt /\ UNCHANGED <<now, cbVars, tbVars, bVars, ecVars, adVars, nzVars, rgVars, rlVars, obVars, fanVars, tsVars, nmVars>>
  \/ RetryWake /\ UNCHANGED <<now, cbVars, tbVars, bVars, ecVars, adVars, nzVars, rgVars, rlVars, obVars, fanVars, tsVars, nmVars>>
  \/ RetryCancel /\ UNCHANGED <<now, cbVars, tbVars, bVars, ecVars, adVars, nzVars, rgVars, rlVars, obVars, fanVars, tsVars, nmVars>>
  \/ RetryCtxDone /\ UNCHANGED <<now, cbVars, tbVars, bVars, ecVars, adVars, nzVars, rgVars, rlVars, obVars, fanVars, tsVars, nmVars>>

RetrySpec == RetrySpecInit /\ [][RetryNext]_vars

\* Calls through one RateLimitedProvider, one after the other, with any
\* method and any number of symbols.
RateLimitedProviderInit ==
  /\ now = 0
  /\ LimiterInit(NoLog, NoLog)
  /\ rl = IdleRateLimited
  /\ BreakerUnused
  /\ BuilderUnused
  /\ ErrorsUnused
  /\ AdaptersUnused
  /\ NormalizeUnused
  /\ RegistryUnused
  /\ RetryUnused
  /\ ObservableUnused
  /\ FanOutUnused
  /\ TimestampUnused
  /\ NameUnused

\* What a step of a RateLimitedProvider call leaves alone.
RateLimitedProviderFrame ==
  UNCHANGED <<now, cbVars, bVars, ecVars, adVars, nzVars, rgVars, rtVars, obVars,
              fanVars, tsVars, nmVars>>

RateLimitedProviderNext ==
  \/ \E op \in Ops, n \in 0..MaxSymbols, x \in BOOLEAN :
       RateLimitedBegin(op, n, x) /\ RateLimitedProviderFrame
  \/ rl.pc = "Wait" /\ Check(RateLimitedCaller) /\ UNCHANGED rl /\ RateLimitedProviderFrame
  \/ rl.pc = "Wait" /\ Take(RateLimitedCaller) /\ UNCHANGED rl /\ RateLimitedProviderFrame
  \/ rl.pc = "Wait" /\ CancelCtx(RateLimitedCaller) /\ UNCHANGED rl /\ RateLimitedProviderFrame
  \/ rl.pc = "Wait" /\ CtxDone(RateLimitedCaller) /\ UNCHANGED rl /\ RateLimitedProviderFrame
  \/ rl.pc = "Wait" /\ Wake(RateLimitedCaller) /\ UNCHANGED rl /\ RateLimitedProviderFrame
  \/ rl.pc = "Wait" /\ \E inner \in InnerResults(rl.op) :
       RateLimitedReturn(inner) /\ RateLimitedProviderFrame
  \/ RateLimitedName /\ RateLimitedProviderFrame
  \/ Tick

RateLimitedProviderSpec == RateLimitedProviderInit /\ [][RateLimitedProviderNext]_vars

\* Calls through one ObservableProvider, with any method, context, arguments
\* and result of the wrapped provider.
ObservableSpecInit ==
  /\ now = 0
  /\ ob = NoObserved
  /\ BreakerUnused
  /\ LimiterUnused
  /\ NameUnused
  /\ TimestampUnused
  /\ FanOutUnused
  /\ BuilderUnused
  /\ ErrorsUnused
  /\ AdaptersUnused
  /\ NormalizeUnused
  /\ RegistryUnused
  /\ RetryUnused
  /\ RateLimitedProviderUnused

ObservableNext ==
  \E op \in Ops, ctx \in Contexts :
    \E args \in ObservedArgs(op), inner \in ObservedResults(op) :
      /\ ObservableCall(op, ctx, args, inner)
      /\ UNCHANGED <<now, cbVars, tbVars, bVars, ecVars, adVars, nzVars, rgVars,
                     rtVars, rlVars, fanVars, tsVars, nmVars>>

ObservableSpec == ObservableSpecInit /\ [][ObservableNext]_vars

\* One GetQuotes call of Alpha Vantage or Polygon, one step of its loop at a
\* time.
FanOutSpecInit ==
  /\ now = 0
  /\ FanOutInit
  /\ BreakerUnused
  /\ LimiterUnused
  /\ NameUnused
  /\ TimestampUnused
  /\ BuilderUnused
  /\ ErrorsUnused
  /\ NormalizeUnused
  /\ RegistryUnused
  /\ RetryUnused
  /\ RateLimitedProviderUnused
  /\ ObservableUnused

\* What a step of the loop leaves alone.
FanOutFrame ==
  UNCHANGED <<now, cbVars, tbVars, bVars, ecVars, nzVars, rgVars, rtVars, rlVars,
              obVars, tsVars, nmVars>>

FanOutNext ==
  \/ FanOutEnter /\ FanOutFrame
  \/ FanOutGetQuote /\ FanOutFrame
  \/ FanOutStore /\ FanOutFrame
  \/ FanOutReturn /\ FanOutFrame

FanOutSpec == FanOutSpecInit /\ [][FanOutNext]_vars

\* ParseTimestamp applied to one value.
TimestampSpecInit ==
  /\ now = 0
  /\ TimestampInit
  /\ BreakerUnused
  /\ LimiterUnused
  /\ NameUnused
  /\ BuilderUnused
  /\ ErrorsUnused
  /\ AdaptersUnused
  /\ NormalizeUnused
  /\ RegistryUnused
  /\ RetryUnused
  /\ RateLimitedProviderUnused
  /\ ObservableUnused
  /\ FanOutUnused

TimestampNext ==
  /\ ParseTimestamp
  /\ UNCHANGED <<now, cbVars, tbVars, bVars, ecVars, adVars, nzVars, rgVars, rtVars,
                 rlVars, obVars, fanVars, nmVars>>

TimestampSpec == TimestampSpecInit /\ [][TimestampNext]_vars

\* Name() called on a composition of middlewares, with the breaker and the
\* limiter in any of their states.
NameSpecInit ==
  /\ now = 0
  /\ NameInit
  /\ BreakerAnyState
  /\ LimiterAnyTokens
  /\ BuilderUnused
  /\ ErrorsUnused
  /\ AdaptersUnused
  /\ NormalizeUnused
  /\ RegistryUnused
  /\ RetryUnused
  /\ RateLimitedProviderUnused
  /\ ObservableUnused
  /\ FanOutUnused
  /\ TimestampUnused

NameNext ==
  /\ NameCall
  /\ UNCHANGED <<now, cbVars, tbVars, bVars, ecVars, adVars, nzVars, rgVars, rtVars,
                 rlVars, obVars, fanVars, tsVars>>

NameSpec == NameSpecInit /\ [][NameNext]_vars

(* ---------------------- circuit breaker: claims ----------------------- *)

\* The most recent call to return was refused: ErrCircuitOpen, no quote,
\* cb.provider untouched.
RejectedReturn ==
  /\ lastReturn.returned
  /\ lastReturn.innerCalls = 0
  /\ lastReturn.ret = [quote |-> NoQuote, err |-> ErrCircuitOpen]

\* The most recent call to return went through cb.provider.
CompletedReturn ==
  /\ lastReturn.returned
  /\ lastReturn.innerCalls = 1

\* Caller c has no call in flight and the most recent return is a refusal:
\* right after Enter(c, op), the call of c was refused.
Rejected(c) ==
  /\ calls[c].pc = "idle"
  /\ RejectedReturn

\* The call of caller c was passed to cb.provider, which has not returned yet.
Admitted(c) ==
  /\ calls[c].pc = "inner"
  /\ calls[c].innerCalls = 1

\* C1: once the last max_failures completions were all failures (no success
\* and no Reset since), a call of any kind that arrives while no more than
\* reset_timeout has passed since the last failure is refused with
\* ErrCircuitOpen and does not reach the wrapped provider.
C1_TrippedBreakerRejects ==
  [][\A c \in Callers, op \in Ops :
       (/\ consec >= config.MaxFailures
        /\ now - lastFailAt <= config.ResetTimeout
        /\ Enter(c, op))
       => Rejected(c)']_vars

\* The breaker tripped on max_failures failures in a row and has refused a
\* call since.
C1_Witness ==
  /\ RejectedReturn
  /\ state = StateOpen
  /\ failures = config.MaxFailures
  /\ consec = config.MaxFailures
  /\ now - lastFailAt <= config.ResetTimeout

\* C2: a caller that arrives while the breaker is HALF_OPEN and the probe of
\* another caller is still in flight is refused with ErrCircuitOpen and does
\* not reach the wrapped provider.
C2_OnlyTheProbePasses ==
  [][\A c \in Callers, op \in Ops :
       (/\ state = StateHalfOpen
        /\ probe.phase = "in flight"
        /\ probe.caller # c
        /\ Enter(c, op))
       => Rejected(c)']_vars

C4_OnlyTransientFailuresCount ==
  [][\A c \in Callers, r \in AllInnerResults :
       (r.err # NilErr /\ ~r.err.retryable /\ Exit(c, r))
       => /\ failures' = failures
          /\ ~(state = StateClosed /\ state' = StateOpen)]_vars

\* C5: a call that completes successfully while the breaker is CLOSED leaves
\* the failure counter 0 and the breaker CLOSED, and the breaker is OPEN only
\* when at least max_failures calls have failed since the last success.
C5_OnlyConsecutiveFailuresTrip ==
  [][/\ \A c \in Callers, r \in AllInnerResults :
          (r.err = NilErr /\ state = StateClosed /\ Exit(c, r))
          => failures' = 0 /\ state' = StateClosed
     /\ state' = StateOpen => consec' >= config.MaxFailures]_vars

\* With max_failures >= 2: a call failed, the next to complete succeeded while
\* the breaker was CLOSED, and the counter is back to 0.
C5_Witness ==
  /\ config.MaxFailures >= 2
  /\ CompletedReturn
  /\ lastReturn.ret.err = NilErr
  /\ lastReturn.cleared
  /\ lastFailAt >= 0
  /\ state = StateClosed
  /\ failures = 0

\* C6: a call that has returned either never reached the wrapped provider and
\* returned ErrCircuitOpen with no quote, or reached it exactly once and
\* returned exactly what the wrapped provider returned.
C6_RejectOrPassThrough ==
  /\ \A c \in Callers : calls[c].pc = "inner" => calls[c].innerCalls = 1
  /\ lastReturn.returned =>
       \/ /\ lastReturn.innerCalls = 0
          /\ lastReturn.ret = [quote |-> NoQuote, err |-> ErrCircuitOpen]
       \/ /\ lastReturn.innerCalls = 1
          /\ lastReturn.ret = lastReturn.innerRet

\* The wrapped provider's permanent error came back as it was, from a call
\* that reached the wrapped provider once.
C6_Witness ==
  /\ CompletedReturn
  /\ lastReturn.innerRet = [quote |-> NoQuote, err |-> NewProviderError(401)]
  /\ lastReturn.ret = lastReturn.innerRet

RECURSIVE SumLog(_, _, _)
\* The Allow() calls that returned true and are dated a..b.
SumLog(log, a, b) ==
  IF a > b THEN 0
  ELSE (IF a \in DOMAIN log THEN log[a] ELSE 0) + SumLog(log, a + 1, b)

C9_CancelledWaitTakesNoToken ==
  \A c \in Callers :
    waits[c].pc = "done" =>
      /\ waits[c].ret = "context.Canceled" => waits[c].consumed = 0
      /\ waits[c].ret = "nil" => waits[c].consumed = 1

\* One Wait got the only token; another slept, was cancelled and returned the
\* cancellation error, the bucket being empty as the first left it.
C9_Witness ==
  \E c, d \in Callers :
    /\ waits[c].pc = "done" /\ waits[c].ret = "nil" /\ waits[c].consumed = 1
    /\ waits[d].pc = "done" /\ waits[d].ret = "context.Canceled"
    /\ waits[d].consumed = 0
    /\ granted = 1
    /\ tokens = tb.capacity - tb.refillPer

\* C10: the admissions granted never exceed maxRequests plus the tokens
\* refilled since construction (elapsed / refillPer), and as long as no time
\* has passed the callers admitted are min(N, maxRequests) of the N that
\* tried: never more than maxRequests, and all maxRequests once one was refused.
C10_NoTokenSpentTwice ==
  /\ granted * tb.refillPer <= tb.maxRequests * tb.refillPer + now
  /\ now = 0 => /\ granted <= tb.maxRequests
                /\ failedAtZero => granted = tb.maxRequests

\* More callers than tokens at instant 0: every token was granted once, and
\* a caller was refused or put to sleep.
C10_Witness ==
  /\ now = 0
  /\ failedAtZero
  /\ granted = tb.maxRequests
  /\ tokens = 0
  /\ \E c, d \in Callers :
       /\ waits[c].pc = "done" /\ waits[c].consumed = 1
       /\ \/ waits[d].pc = "sleep"
          \/ waits[d].pc = "done" /\ waits[d].ret = "false"

\* C11 (as stated): once N > maxRequests Wait() calls have been admitted, the
\* N-th was admitted at least window * (N - maxRequests) / maxRequests after
\* the first (each admission dated by the limiter's reading of the clock).
C11_SustainedRateExact ==
  waitLog.n > tb.maxRequests =>
    (waitLog.last - waitLog.first) * tb.maxRequests
      >= tb.window * (waitLog.n - tb.maxRequests)

\* C11 (amended): the N-th admission comes at least (N - maxRequests) *
\* refillPer after the first, refillPer being the integer quotient
\* window / maxRequests the constructor computes.
C11_SustainedRateTruncated ==
  waitLog.n > tb.maxRequests =>
    waitLog.last - waitLog.first >= (waitLog.n - tb.maxRequests) * tb.refillPer

\* maxRequests does not divide window, more Wait() calls were admitted than
\* the bucket holds, and the latest came exactly (N - maxRequests) * refillPer
\* after the first: earlier than window * (N - maxRequests) / maxRequests.
C11_Witness ==
  /\ tb.refillPer * tb.maxRequests < tb.window
  /\ waitLog.n > tb.maxRequests
  /\ waitLog.last - waitLog.first = (waitLog.n - tb.maxRequests) * tb.refillPer

\* C14: a call through RateLimitedProvider whose context was cancelled before
\* the call returns the cancellation error, takes no token and leaves the
\* wrapped provider alone, whether the bucket holds a token or not.
C14_CancelledCallStopsAtLimiter ==
  \A c \in Callers :
    (waits[c].pc = "done" /\ waits[c].cancelled) =>
      /\ RateLimitedCall(waits[c].ret).err = "context.Canceled"
      /\ RateLimitedCall(waits[c].ret).innerCalls = 0
      /\ waits[c].consumed = 0

(* ----------------------- provider builder: claims --------------------- *)

\* The order the layers are to have, the outermost first.
FixedOrder ==
  <<ObservabilityLayer, CircuitBreakerLayer, RetryLayer, RateLimitLayer>>

\* The layers of p other than the base adapter.
LayersOf(p) == {p[i] : i \in 1..(Len(p) - 1)}

\* The layers of the set ls in the fixed order, around the base adapter.
FixedNesting(ls) ==
  SelectSeq(FixedOrder, LAMBDA l : l \in ls) \o <<BaseAdapter>>

\* C12: whatever With... calls were made and in whatever order (each method
\* at most once), Build() returns the requested layers nested observability,
\* circuit breaker, retry, rate-limit, base adapter, from the outermost to the
\* innermost.
C12_BuildNestsInFixedOrder ==
  (built # NotBuilt /\ Cardinality(LayersOf(built)) = Len(built) - 1)
    => built = FixedNesting(LayersOf(built))

(* ---------------------- error construction: claims -------------------- *)

\* C16 (as stated): Retryable is true exactly for the status codes 0, 429 and
\* 500..599.
C16_RetryableIffTransientCode ==
  made # NilErr =>
    (made.retryable <=>
       (statusCode = 0 \/ statusCode = 429 \/ statusCode \in 500..599))

\* C16 (amended): Retryable is true exactly for the status codes 0, 429 and
\* those from 500 upwards, with no upper end; so it is true for 500, 502, 503
\* and 504 and false for 400, 401, 403, 404 and every 4xx code other than 429.
C16_RetryableIffTransientOrAbove ==
  made # NilErr =>
    /\ made.status = statusCode
    /\ made.retryable <=> (statusCode = 0 \/ statusCode = 429 \/ statusCode >= 500)
    /\ statusCode \in {500, 502, 503, 504} => made.retryable
    /\ statusCode \in (400..499) \ {429} => ~made.retryable

\* A status code above the 5xx range was classified retryable.
C16_Witness ==
  /\ made # NilErr
  /\ statusCode > 599
  /\ made.retryable

(* ---------------------------- adapters: claims ------------------------- *)

\* C13: a call of GetQuote, GetQuotes (with symbols) or HealthCheck of an
\* adapter with a context that is cancelled already returns an error that
\* is context.Canceled to errors.Is, and sends no HTTP request.
C13_CancelledContextFailsWithoutRequest ==
  (/\ out # NoOutput
   /\ req.provider \in Adapters
   /\ req.ctx = CtxCancelledBefore
   /\ req.op = "GetQuotes" => req.symbols # <<>>)
  => /\ out.err # NilErr
     /\ errorsIs(out.err, CtxCanceled)
     /\ out.requests = 0

\* C15: the error an adapter returns when the caller cancels the context
\* during the HTTP call is not retryable, and is context.Canceled to
\* errors.Is.
C15_CancellationIsNotRetryable ==
  (/\ out # NoOutput
   /\ req.provider \in Adapters
   /\ req.ctx = CtxCancelledDuring
   /\ out.err # NilErr)
  => /\ ~out.err.retryable
     /\ errorsIs(out.err, CtxCanceled)

\* C17: a GetQuotes of an adapter that returns no error returns one entry
\* per symbol asked for, each nil or a quote whose symbol is the uppercased
\* symbol at its index, whatever the vendor answered.
C17_GetQuotesAlignedWithInput ==
  (/\ out # NoOutput
   /\ req.provider \in Adapters
   /\ req.op = "GetQuotes"
   /\ out.err = NilErr)
  => /\ Len(out.quotes) = Len(req.symbols)
     /\ \A i \in 1..Len(req.symbols) :
          \/ out.quotes[i] = NilQuote
          \/ out.quotes[i].symbol = ToUpper(req.symbols[i])

\* C18: a GetQuotes of an adapter that the vendor answers with an
\* authentication failure (401, 403) returns an error.
C18_AuthFailureFailsWholeCall ==
  (/\ out # NoOutput
   /\ req.provider \in Adapters
   /\ req.op = "GetQuotes"
   /\ req.symbols # <<>>
   /\ req.ctx = CtxLive
   /\ vendor.status \in {401, 403})
  => out.err # NilErr

\* C19: in the answer of FMP's GetQuotes, the entry at index i is the
\* normalized quote of an entry of the vendor's answer whose uppercased
\* symbol is the uppercased i-th symbol and which passes normalization,
\* if there is one, and nil otherwise.
C19_FMPBatchMatchesUppercased ==
  (/\ out # NoOutput
   /\ req.provider = FMP
   /\ req.op = "GetQuotes"
   /\ req.symbols # <<>>
   /\ out.err = NilErr)
  => \A i \in 1..Len(req.symbols) :
       LET matches == {j \in 1..Len(vendor.entries) :
                         /\ ToUpper(vendor.entries[j].symbol) = ToUpper(req.symbols[i])
                         /\ normalizeQuote(vendor.entries[j]).ok}
       IN IF matches = {}
          THEN out.quotes[i] = NilQuote
          ELSE \E j \in matches :
                 out.quotes[i] = normalizeQuote(vendor.entries[j]).quote

\* C20: a GetQuote of an adapter or of the MockProvider that returns no
\* error returns a quote whose symbol is the uppercased symbol asked for,
\* whatever symbol the vendor's answer carries.
C20_GetQuoteSymbolUppercased ==
  (/\ out # NoOutput
   /\ req.op = "GetQuote"
   /\ out.err = NilErr)
  => out.quotes[1].symbol = ToUpper(req.symbols[1])

\* C22: GetQuotes with an empty list of symbols, of an adapter or of a
\* MockProvider with no error configured, returns an empty list and a nil
\* error, sends no HTTP request and calls no GetQuote.
C22_EmptyListReturnsEmpty ==
  (/\ out # NoOutput
   /\ req.op = "GetQuotes"
   /\ req.symbols = <<>>
   /\ req.provider = Mock => vendor.status = 200)
  => /\ out.quotes = <<>>
     /\ out.err = NilErr
     /\ out.requests = 0
     /\ getQuoteCalls = 0

C22_Witness ==
  /\ out # NoOutput
  /\ req.provider = FMP
  /\ req.op = "GetQuotes"
  /\ req.symbols = <<>>
  /\ out.quotes = <<>>

(* -------------------------- normalization: claims ---------------------- *)

\* C21: a quote an adapter returns has a symbol that is not empty, a
\* price > 0, a volume >= 0 and a timestamp not later than the current
\* time; a payload with a price <= 0, a negative volume, an empty symbol or
\* a timestamp in the future yields an error that is not retryable.
C21_ReturnedQuotePassesValidation ==
  validated # NoOutput =>
    /\ validated.err = NilErr =>
         /\ validated.quotes[1].symbol # <<>>
         /\ validated.quotes[1].price > 0
         /\ validated.quotes[1].volume >= 0
         /\ validated.quotes[1].timestamp <= now
    /\ (\/ data.price <= 0
        \/ data.volume < 0
        \/ TrimSpace(data.symbol) = <<>>
        \/ data.timestamp > now)
       => validated.err # NilErr /\ ~validated.err.retryable

(* ----------------------------- registry: claims ------------------------ *)

\* A Register call of goroutine g returns in this step: by a panic, or
\* after it stored its factory.
RegisterRejected(g) == regs[g].pc = "check" /\ regs'[g].pc = "idle"
RegisterSucceeded(g) == regs[g].pc = "store" /\ regs'[g].pc = "idle"

\* C23: a Register with a nil factory or with a name registered already is
\* rejected and leaves the map as it was; the factory of a registered name
\* is never replaced; a Register that succeeds had a factory and a name
\* not registered, so that of the calls for one name exactly one succeeds.
C23_RegisterRejectsNilAndDuplicate ==
  [][/\ \A n \in RegistryNames :
          providerRegistry[n] # NotRegistered
          => providerRegistry'[n] = providerRegistry[n]
     /\ \A g \in Callers :
          /\ RegisterRejected(g)
             => /\ providerRegistry' = providerRegistry
                /\ \/ regs[g].factory = NilFactory
                   \/ providerRegistry[regs[g].name] # NotRegistered
          /\ RegisterSucceeded(g)
             => /\ regs[g].factory # NilFactory
                /\ providerRegistry[regs[g].name] = NotRegistered
                /\ providerRegistry'[regs[g].name] = regs[g].factory
                /\ \A n \in RegistryNames \ {regs[g].name} :
                     providerRegistry'[n] = providerRegistry[n]]_vars

\* Two goroutines called Register for one name, each with its factory: one
\* has succeeded and the other is about to be rejected.
C23_Witness ==
  \E g \in Callers :
    /\ regs[g].pc = "check"
    /\ regs[g].factory = g
    /\ providerRegistry[regs[g].name] \in Callers \ {g}

\* C24: a Create for a name that is not registered returns no provider and
\* an error that lists the names registered, and invokes no factory; a
\* Create for a registered name invokes the factory registered under the
\* name, once, with the configuration given, and returns its result.
C24_CreateUsesRegisteredFactory ==
  created # NoCreated =>
    /\ providerRegistry[created.name] = NotRegistered
       => created.found = NotRegistered
    /\ created.found = NotRegistered
       => /\ created.provider = <<>>
          /\ created.err = errorsNew("not registered")
          /\ created.names =
               {n \in RegistryNames : providerRegistry[n] # NotRegistered}
          /\ created.invoked = <<>>
    /\ created.found # NotRegistered
       => /\ created.found = providerRegistry[created.name]
          /\ created.invoked =
               <<<<providerRegistry[created.name], created.config>>>>
          /\ created.config = "Config"
             => /\ created.provider =
                     <<providerRegistry[created.name], created.config>>
                /\ created.err = NilErr
          /\ created.config # "Config"
             => created.provider = <<>> /\ created.err # NilErr

\* A Create for a name nobody registered, while another name is registered.
C24_Witness ==
  /\ created # NoCreated
  /\ created.found = NotRegistered
  /\ created.names # {}

\* C37: every Register, Create, ListProviders and IsRegistered call that
\* has begun completes, whatever the other goroutines do, a Register that
\* waits for the write lock included.
C37_RegistryCallsComplete ==
  \A g \in Callers : (regs[g].pc # "idle") ~> (regs[g].pc = "idle")

\* A Create has released the read lock and is about to take it again in
\* ListProviders, while a Register waits for the write lock.
C37_Witness ==
  \E g \in Callers, h \in Callers :
    /\ regs[g].pc = "ListProviders"
    /\ regs[h].pc = "Lock"
    /\ registryMu = [writer |-> 0, readers |-> {}]

(* ------------------------- retry middleware: claims -------------------- *)

\* C25: around an inner provider that fails k times with a retryable error
\* and then succeeds, a call that is not cancelled succeeds exactly when
\* k < max_attempts, invokes the inner provider min(k+1, max_attempts)
\* times, returns the last inner error when the attempts are exhausted,
\* and has slept between attempts only, not after the last.
C25_RetryAttemptsBounded ==
  (/\ rt.pc = "done"
   /\ ~rt.cancelled
   /\ innerPlan.err.retryable)
  => /\ rt.ret = NilErr <=> innerPlan.k < retryConfig.maxAttempts
     /\ rt.innerCalls = min(innerPlan.k + 1, retryConfig.maxAttempts)
     /\ rt.ret # NilErr => rt.ret = innerPlan.err
     /\ rt.sleeps = rt.innerCalls - 1

\* The attempts, more than one, are exhausted.
C25_Witness ==
  /\ rt.pc = "done"
  /\ ~rt.cancelled
  /\ innerPlan.err.retryable
  /\ innerPlan.k >= retryConfig.maxAttempts
  /\ rt.innerCalls >= 2

\* C26: every delay slept between attempts is at most max_backoff and at
\* least the delay slept before it, with jitter as without.
C26_BackoffMonotoneAndCapped ==
  rt.pc = "sleeping"
  => /\ rt.backoff <= retryConfig.maxBackoff
     /\ rt.sleeps >= 2 => rt.backoff >= rt.prevBackoff

\* C27: when the caller has cancelled the context while the call sleeps in
\* the backoff after a failed first attempt, the next thing the call does
\* is return the cancellation error, the inner provider invoked once.
C27_CancelDuringBackoffReturns ==
  [][(/\ rt.pc = "sleeping"
      /\ rt.cancelled
      /\ rt.innerCalls = 1
      /\ rt' # rt)
     => /\ rt'.pc = "done"
        /\ rt'.ret = CtxCanceled
        /\ rt'.innerCalls = 1]_vars

C27_Witness ==
  /\ rt.pc = "done"
  /\ rt.ret = CtxCanceled
  /\ rt.innerCalls = 1
  /\ innerPlan.k >= retryConfig.maxAttempts

(* ---------------------- rate-limited provider: claims ------------------ *)

\* C28: a GetQuote, GetQuotes or HealthCheck call through the
\* RateLimitedProvider invokes the inner provider exactly when Wait returned
\* nil, and then once and after the limiter granted the admission; an error
\* of Wait is returned as it is, with no quote; what the inner provider
\* returns is returned as it is.
C28_InnerCalledIffAdmitted ==
  (rl.pc = "returned" /\ rl.op \in Ops)
  => LET w == waits[RateLimitedCaller] IN
     /\ rl.innerCalls = IF w.ret = "nil" THEN 1 ELSE 0
     /\ rl.innerCalls = 1 => /\ w.consumed >= 1
                             /\ granted >= 1
                             /\ rl.inner \in InnerResults(rl.op)
                             /\ rl.ret = rl.inner
     /\ rl.innerCalls = 0 => /\ w.ret = "context.Canceled"
                             /\ rl.ret.err = CtxCanceled
                             /\ rl.ret.quote = NoQuote

\* A call was admitted and returns the error of the inner provider.
C28_Witness ==
  /\ rl.pc = "returned"
  /\ rl.op = "GetQuote"
  /\ rl.innerCalls = 1
  /\ rl.ret.err = NewProviderError(503)
  /\ waits[RateLimitedCaller].ret = "nil"

C30_ObservableIsTransparent ==
  ob.pc = "returned"
  => /\ ob.innerCalls = <<[op |-> ob.op, ctx |-> ob.ctx, args |-> ob.args]>>
     /\ ob.ret.err # NilErr <=> ob.innerRet.err # NilErr
     /\ ob.ret.err = ob.innerRet.err

\* A GetQuotes call with a cancelled context whose wrapped provider failed:
\* the error is logged and returned.
C30_Witness ==
  /\ ob.pc = "returned"
  /\ ob.op = "GetQuotes"
  /\ ob.ctx = CtxCancelledBefore
  /\ Len(ob.args) = MaxSymbols
  /\ ob.innerRet.err = NewProviderError(503)
  /\ ob.ret.err = NewProviderError(503)
  /\ ob.logged = <<"Debug", "Error">>

(* ------------------------ sequential fan-out: claims ------------------- *)

C34_StateAgreesWithCount ==
  config.MaxFailures >= 1
  => /\ state = StateClosed => failures < config.MaxFailures
     /\ state \in {StateOpen, StateHalfOpen} => failures >= config.MaxFailures

\* A call admitted before the breaker tripped failed after it: the count
\* went beyond max_failures, and the breaker has since become HALF_OPEN.
C34_Witness ==
  /\ state = StateHalfOpen
  /\ failures > config.MaxFailures

\* C35: an OPEN breaker leaves OPEN only for HALF_OPEN, by a call that
\* arrives more than reset_timeout after the last failure, or by Reset();
\* the completion of a call never takes it from OPEN to CLOSED.
C35_OpenLeftOnlyByProbeOrReset ==
  [][(state = StateOpen /\ state' # StateOpen)
     => \/ Reset
        \/ /\ state' = StateHalfOpen
           /\ ResetTimeoutElapsed(now, lastFailureTime, config)
           /\ \E c \in Callers, op \in Ops : Enter(c, op)]_vars

\* C36: a call refused with ErrCircuitOpen leaves the breaker's state, its
\* failure count and its last-failure instant as they were, so the instant
\* from which a probe is admitted stays where it was; the wrapped provider
\* is not called.
C36_RejectionChangesNothing ==
  [][\A c \in Callers, op \in Ops :
       (Enter(c, op) /\ Rejected(c)')
       => /\ UNCHANGED <<state, failures, lastFailureTime, consec, lastFailAt>>
          /\ state = StateOpen
          /\ lastReturn'.innerCalls = 0]_vars

\* A call was refused at the last instant of the timeout, and the breaker
\* is as the failure that tripped it left it.
C36_Witness ==
  /\ RejectedReturn
  /\ state = StateOpen
  /\ failures = config.MaxFailures
  /\ lastFailureTime = lastFailAt
  /\ now = lastFailureTime + config.ResetTimeout

(* --------------------- rate limiter: the token count ------------------- *)

\* C33: the token count of a TokenBucketLimiter is never negative and never
\* above the capacity, whatever the interleaving of Wait and Allow calls and
\* the time that passes between them.
C33_TokensWithinCapacity ==
  /\ 0 <= tokens
  /\ tokens <= tb.capacity

\* The bucket was emptied, refilled after a while and emptied again.
C33_Witness ==
  /\ tokens = 0
  /\ lastCheck > 0
  /\ granted > tb.maxRequests

\* C38: callers that call Wait once each all return in the end, nil having
\* taken one token, or the cancellation error, their context cancelled,
\* having taken none; and no caller sleeps with the lock held.
C38_EveryWaitReturns ==
  /\ [](\A c \in Callers :
          /\ waits[c].pc = "sleep" => mu # c
          /\ waits[c].pc = "done"
             => \/ waits[c].ret = "nil" /\ waits[c].consumed = 1
                \/ /\ waits[c].ret = "context.Canceled"
                   /\ waits[c].cancelled
                   /\ waits[c].consumed = 0)
  /\ \A c \in Callers : (waits[c].pc # "idle") ~> (waits[c].pc = "done")

\* Every caller has returned nil, the last one after the bucket was empty
\* and time had passed.
C38_Witness ==
  /\ \A c \in Callers : waits[c].pc = "done" /\ waits[c].ret = "nil"
  /\ granted > tb.maxRequests
  /\ now > 0

(* ------------------------------ Name(): claims ------------------------- *)

\* The characters of a lowercase alphanumeric string.
LowerAlnum ==
  {"a", "b", "c", "d", "e", "f", "g", "h", "i", "j", "k", "l", "m", "n", "o",
   "p", "q", "r", "s", "t", "u", "v", "w", "x", "y", "z",
   "0", "1", "2", "3", "4", "5", "6", "7", "8", "9"}

\* C39: Name() of any composition of rate-limit, circuit-breaker and
\* observability middlewares is the name of the base adapter, non-empty and
\* made of lowercase letters and digits, the same on every call whatever
\* the state of the breaker and the tokens of the limiter, and a call
\* leaves the breaker's state, its failure count and the limiter's tokens
\* as they were.
C39_NameIsBaseAdaptersName ==
  /\ [](\A i \in 1..Len(named) :
          /\ named[i] = adapterName(stack.base)
          /\ named[i] # <<>>
          /\ \A k \in 1..Len(named[i]) : named[i][k] \in LowerAlnum
          /\ named[i] = named[1])
  /\ [][named' # named
        => UNCHANGED <<state, failures, lastFailureTime, tokens, lastCheck, mu>>]_vars

\* Name() was called twice on a composition of the three middlewares with
\* the breaker OPEN and the bucket empty.
C39_Witness ==
  /\ Len(named) = 2
  /\ {stack.layers[i] : i \in 1..Len(stack.layers)} = NameLayers
  /\ state = StateOpen
  /\ tokens = 0

(* -------------------------- ParseTimestamp: claims --------------------- *)

\* C32: ParseTimestamp reads a number the same way whether it is an int, an
\* int64 or a float64: up to the threshold as Unix seconds, above it as Unix
\* milliseconds, exactly (nothing is lost to the width of an int64), and
\* the time returned is in UTC.
C32_NumericTypesAgree ==
  (parsed.done /\ raw.type \in {"int64", "int", "float64"})
  => /\ parsed.t.loc = "UTC"
     /\ 2 * parsed.t.ns =
          (2 * raw.v + raw.half)
            * (IF 2 * raw.v + raw.half > 2 * MsThreshold
               THEN NanosPerMilli
               ELSE NanosPerSecond)

====
